---------------------------- MODULE StreamingProofs ----------------------------
(***************************************************************************)
(* Theorems about a program from its command line to the end of its        *)
(* stream, for buffers, gamepads, queues and rings of any size: whichever  *)
(* renderer is used, its buffers are accounted for and it takes what the   *)
(* host was offered; the channels reach their speakers; the settings that  *)
(* were saved come back; SDL's gamepads are those the host sees, and no    *)
(* frame of SDL is taken for another.                                      *)
(***************************************************************************)
EXTENDS Streaming, Integers, FiniteSetTheorems, FunctionTheorems, SequenceTheorems, WellFoundedInduction,
        NaturalsInduction, TLAPS

-----------------------------------------------------------------------------
(* How often a buffer's number is in a sequence.                           *)

\* The module of the renderer has this operator by a name of its own.
LEMMA SameCardinality ==
  ASSUME NEW S
  PROVE  I!Cardinality(S) = Cardinality(S)
BY DEF I!Cardinality, I!IsFiniteSet, Cardinality, IsFiniteSet

LEMMA NoOccurrence ==
  ASSUME NEW s, s = <<>>, NEW b
  PROVE  I!Occurrences(s, b) = 0
<1>1. {i \in DOMAIN s : s[i] = b} = {}
  OBVIOUS
<1> QED BY <1>1, FS_EmptySet, SameCardinality DEF I!Occurrences

LEMMA OccurrencesType ==
  ASSUME NEW S, NEW s \in Seq(S), NEW b
  PROVE  /\ IsFiniteSet({i \in DOMAIN s : s[i] = b})
         /\ I!Occurrences(s, b) \in Nat
         /\ I!Occurrences(s, b) > 0 <=> \E i \in DOMAIN s : s[i] = b
<1> DEFINE At == {i \in DOMAIN s : s[i] = b}
<1>1. DOMAIN s = 1 .. Len(s) /\ Len(s) \in Nat
  OBVIOUS
<1>2. IsFiniteSet(1 .. Len(s))
  BY <1>1, 1 \in Int, FS_Interval
<1>3. At \subseteq 1 .. Len(s)
  BY <1>1
<1>4. IsFiniteSet(At)
  BY <1>2, <1>3, FS_Subset
<1>5. Cardinality(At) \in Nat /\ (Cardinality(At) = 0 <=> At = {})
  BY <1>4, FS_CardinalityType, FS_EmptySet
<1> QED BY <1>4, <1>5, SameCardinality DEF I!Occurrences

LEMMA OccurrencesAppend ==
  ASSUME NEW S, NEW s \in Seq(S), NEW a \in S, NEW b
  PROVE  I!Occurrences(Append(s, a), b) = I!Occurrences(s, b) + I!IsIn(b, {a})
<1> DEFINE n == Len(s) + 1
           new == Append(s, a)
           At == {i \in DOMAIN s : s[i] = b}
           AtNew == {i \in DOMAIN new : new[i] = b}
<1>1. /\ n \in Nat /\ n > 0 /\ DOMAIN s = 1 .. n - 1 /\ DOMAIN new = 1 .. n
      /\ new[n] = a /\ \A i \in 1 .. n - 1 : new[i] = s[i]
  OBVIOUS
<1>2. n \notin At
  BY <1>1
<1>3. /\ a = b => AtNew = At \cup {n}
      /\ a # b => AtNew = At
  <2> HIDE DEF n, new
  <2>1. \A i : i \in 1 .. n <=> i \in 1 .. n - 1 \/ i = n
    BY <1>1
  <2>2. \A i : i \in AtNew <=> i \in At \/ (i = n /\ a = b)
    BY <1>1, <2>1
  <2> QED BY <2>2
<1>4. IsFiniteSet(At) /\ Cardinality(At) \in Nat
  BY OccurrencesType, SameCardinality DEF I!Occurrences
<1>5. Cardinality(At \cup {n}) = Cardinality(At) + 1
  BY <1>2, <1>4, FS_AddElement
<1>6. Cardinality(AtNew) = Cardinality(At) + I!IsIn(b, {a})
  <2>1. IF a = b THEN I!IsIn(b, {a}) = 1 ELSE I!IsIn(b, {a}) = 0
    BY DEF I!IsIn
  <2> HIDE DEF n, At, AtNew
  <2>2. CASE a = b
    BY <1>3, <1>5, <2>1, <2>2
  <2>3. CASE a # b
    BY <1>3, <1>4, <2>1, <2>3
  <2> QED BY <2>2, <2>3
<1> QED BY <1>6, SameCardinality DEF I!Occurrences

\* The numbers of the tail are those of the sequence, one place further on.
LEMMA OccurrencesTail ==
  ASSUME NEW S, NEW s \in Seq(S), s # <<>>, NEW b
  PROVE  I!Occurrences(s, b) = I!Occurrences(Tail(s), b) + I!IsIn(b, {Head(s)})
<1> DEFINE n == Len(s)
           t == Tail(s)
           At == {i \in DOMAIN s : s[i] = b}
           AtTail == {i \in DOMAIN t : t[i] = b}
           Later == {i \in At : i # 1}
<1>1. /\ n \in Nat /\ n > 0 /\ DOMAIN s = 1 .. n /\ DOMAIN t = 1 .. n - 1 /\ t \in Seq(S)
      /\ Head(s) = s[1] /\ \A i \in 1 .. n - 1 : t[i] = s[i + 1]
  OBVIOUS
<1>2. /\ IsFiniteSet(AtTail) /\ Cardinality(AtTail) \in Nat
      /\ Cardinality(AtTail) = I!Occurrences(t, b)
  BY <1>1, OccurrencesType, SameCardinality DEF I!Occurrences
<1>3. Cardinality(Later) = Cardinality(AtTail) /\ IsFiniteSet(Later)
  <2> DEFINE f == [i \in AtTail |-> i + 1]
  <2> HIDE DEF n, t
  <2>1. f \in Bijection(AtTail, Later)
    <3>1. f \in [AtTail -> Later]
      BY <1>1
    <3>2. \A i, j \in AtTail : f[i] = f[j] => i = j
      BY <1>1
    <3>3. \A j \in Later : \E i \in AtTail : f[i] = j
      <4> TAKE j \in Later
      <4>1. j - 1 \in AtTail /\ f[j - 1] = j
        BY <1>1
      <4> QED BY <4>1
    <3> QED BY <3>1, <3>2, <3>3, Fun_IsBij
  <2>2. f \in Surjection(AtTail, Later)
    BY <2>1 DEF Bijection
  <2>3. IsFiniteSet(Later)
    BY <1>2, <2>2, FS_Surjection
  <2>4. ExistsBijection(AtTail, Later)
    BY <2>1 DEF ExistsBijection
  <2> HIDE DEF AtTail, Later
  <2> QED BY <1>2, <2>4, FS_Bijection
<1>4. /\ s[1] = b => At = Later \cup {1}
      /\ s[1] # b => At = Later
  <2> HIDE DEF n, t
  <2> QED BY <1>1
<1>5. Cardinality(Later \cup {1}) = Cardinality(Later) + 1
  BY <1>3, FS_AddElement
<1>6. Cardinality(At) = Cardinality(AtTail) + I!IsIn(b, {Head(s)})
  <2>1. IF Head(s) = b THEN I!IsIn(b, {Head(s)}) = 1 ELSE I!IsIn(b, {Head(s)}) = 0
    BY DEF I!IsIn
  <2>2. Head(s) = s[1]
    BY <1>1
  <2> HIDE DEF n, t, At, AtTail, Later
  <2>3. CASE Head(s) = b
    BY <1>3, <1>4, <1>5, <2>1, <2>2, <2>3
  <2>4. CASE Head(s) # b
    BY <1>2, <1>3, <1>4, <2>1, <2>2, <2>4
  <2> QED BY <2>3, <2>4
<1> QED BY <1>2, <1>6, SameCardinality DEF I!Occurrences

-----------------------------------------------------------------------------
(* The i.MX6 renderer.                                                     *)

ImxTypeOK ==
  /\ vpu \subseteq I!Buffers /\ currentFrame \in I!Buffers /\ frame \in I!Buffers \cup {-1}
  /\ framepipe \in Seq(I!Buffers) /\ clearpipe \in Seq(I!Buffers) /\ v4l \in Seq(I!Buffers)
  /\ content \in [I!Buffers -> 0 .. MaxFrames] /\ decoded \in 0 .. MaxFrames
  /\ onScreen \in 0 .. Len(v4l)

\* What the two threads rely on between their steps.
ImxPhases ==
  /\ mpc # "exited" => (frame # -1 <=> mpc = "read")
  /\ spc = "decode" => decoded < MaxFrames

ImxOnScreen == onScreen > 0 => shown = content[v4l[onScreen]]

ImxInv ==
  /\ ImxTypeOK /\ ImxPhases /\ ImxOnScreen
  /\ \A b \in I!Buffers : I!Places(b) = 1

LEMMA BuffersThere ==
  /\ BufferCount \in Nat \ {0} /\ MaxFrames \in Nat
  /\ 0 \in I!Buffers /\ -1 \notin I!Buffers /\ I!Buffers \subseteq Nat
BY StreamingAssumption DEF I!Buffers

\* The six numbers that Places adds up.
LEMMA PlacesAreNumbers ==
  ASSUME ImxTypeOK, NEW b
  PROVE  /\ I!IsIn(b, vpu) \in 0 .. 1
         /\ I!IsIn(b, IF spc = "write" THEN {currentFrame} ELSE {}) \in 0 .. 1
         /\ I!IsIn(b, {frame}) \in 0 .. 1
         /\ I!Occurrences(framepipe, b) \in Nat
         /\ I!Occurrences(v4l, b) \in Nat
         /\ I!Occurrences(clearpipe, b) \in Nat
<1>1. framepipe \in Seq(I!Buffers) /\ clearpipe \in Seq(I!Buffers) /\ v4l \in Seq(I!Buffers)
  BY DEF ImxTypeOK
<1>2. /\ I!Occurrences(framepipe, b) \in Nat
      /\ I!Occurrences(v4l, b) \in Nat
      /\ I!Occurrences(clearpipe, b) \in Nat
  BY <1>1, OccurrencesType
<1>3. \A S : I!IsIn(b, S) \in 0 .. 1
  BY DEF I!IsIn
<1> QED BY <1>2, <1>3

LEMMA IsInType == \A b, S : I!IsIn(b, S) \in 0 .. 1
BY DEF I!IsIn

LEMMA ImxInitially == ASSUME I!ImxInit, mpc = "loop", spc = "idle", decoded = 0 PROVE ImxInv
<1> USE BuffersThere
<1>0. <<>> \in Seq(I!Buffers) /\ Len(<<>>) = 0
  OBVIOUS
<1>1. ImxTypeOK
  BY <1>0 DEF I!ImxInit, ImxTypeOK
<1>2. ImxPhases /\ ImxOnScreen
  BY DEF I!ImxInit, ImxPhases, ImxOnScreen
<1>3. ASSUME NEW b \in I!Buffers PROVE I!Places(b) = 1
  <2>1. I!Occurrences(framepipe, b) = 0 /\ I!Occurrences(v4l, b) = 0 /\ I!Occurrences(clearpipe, b) = 0
    BY NoOccurrence DEF I!ImxInit
  <2>2. /\ I!IsIn(b, vpu) = 1
        /\ I!IsIn(b, IF spc = "write" THEN {currentFrame} ELSE {}) = 0
        /\ I!IsIn(b, {frame}) = 0
    BY DEF I!IsIn, I!ImxInit
  <2> QED BY <2>1, <2>2 DEF I!Places
<1> QED BY <1>1, <1>2, <1>3 DEF ImxInv

\* A buffer whose number is somewhere is in no other place.
LEMMA OnePlace ==
  ASSUME ImxInv, NEW b \in I!Buffers
  PROVE  /\ (\E i \in DOMAIN v4l : v4l[i] = b) => b \notin vpu /\ I!Occurrences(clearpipe, b) = 0
         /\ (\E i \in DOMAIN clearpipe : clearpipe[i] = b) =>
              b \notin vpu /\ I!Occurrences(clearpipe, b) = 1
<1>1. I!Places(b) = 1 /\ ImxTypeOK
  BY DEF ImxInv
<1>2. clearpipe \in Seq(I!Buffers) /\ v4l \in Seq(I!Buffers)
  BY <1>1 DEF ImxTypeOK
<1>3. /\ (\E i \in DOMAIN v4l : v4l[i] = b) <=> I!Occurrences(v4l, b) > 0
      /\ (\E i \in DOMAIN clearpipe : clearpipe[i] = b) <=> I!Occurrences(clearpipe, b) > 0
  BY <1>2, OccurrencesType
<1>4. b \in vpu => I!IsIn(b, vpu) = 1
  BY DEF I!IsIn
<1>5. I!Occurrences(v4l, b) > 0 => I!IsIn(b, vpu) = 0 /\ I!Occurrences(clearpipe, b) = 0
  BY <1>1, PlacesAreNumbers DEF I!Places
<1>6. I!Occurrences(clearpipe, b) > 0 => I!IsIn(b, vpu) = 0 /\ I!Occurrences(clearpipe, b) = 1
  BY <1>1, PlacesAreNumbers DEF I!Places
<1> QED BY <1>3, <1>4, <1>5, <1>6

LEMMA ImxClearFrames == ASSUME ImxInv, I!ClearFrames PROVE ImxInv'
<1>0. clearpipe \in Seq(I!Buffers)
  BY DEF ImxInv, ImxTypeOK
<1>1. I!Range(clearpipe) = {clearpipe[i] : i \in DOMAIN clearpipe}
  BY DEF I!Range
<1>2. I!Range(clearpipe) \subseteq I!Buffers
  BY <1>0, <1>1
<1>3. ImxTypeOK'
  <2>1. <<>> \in Seq(I!Buffers)
    OBVIOUS
  <2> QED BY <1>2, <2>1 DEF I!ClearFrames, ImxInv, ImxTypeOK
<1>4. ImxPhases' /\ ImxOnScreen'
  BY DEF I!ClearFrames, ImxInv, ImxPhases, ImxOnScreen, ImxTypeOK
<1>5. ASSUME NEW b \in I!Buffers PROVE I!Places(b)' = 1
  <2>1. I!Places(b) = 1
    BY DEF ImxInv
  <2>2. I!Occurrences(clearpipe', b) = 0
    BY NoOccurrence DEF I!ClearFrames
  <2>3. I!IsIn(b, vpu') = I!IsIn(b, vpu) + I!Occurrences(clearpipe, b)
    <3>1. CASE b \in I!Range(clearpipe)
      <4>1. b \in vpu' /\ b \notin vpu /\ I!Occurrences(clearpipe, b) = 1
        BY <1>1, <3>1, OnePlace DEF I!ClearFrames
      <4> QED BY <4>1 DEF I!IsIn
    <3>2. CASE b \notin I!Range(clearpipe)
      <4>1. I!Occurrences(clearpipe, b) = 0
        <5>1. ~(\E i \in DOMAIN clearpipe : clearpipe[i] = b)
          BY <1>1, <3>2
        <5>2. /\ I!Occurrences(clearpipe, b) \in Nat
              /\ I!Occurrences(clearpipe, b) > 0 <=> \E i \in DOMAIN clearpipe : clearpipe[i] = b
          BY <1>0, OccurrencesType
        <5> QED BY <5>1, <5>2
      <4>2. b \in vpu' <=> b \in vpu
        BY <3>2 DEF I!ClearFrames
      <4> QED BY <4>1, <4>2 DEF I!IsIn
    <3> QED BY <3>1, <3>2
  <2>4. /\ I!IsIn(b, IF spc = "write" THEN {currentFrame} ELSE {}) = 0
        /\ I!IsIn(b, IF spc' = "write" THEN {currentFrame'} ELSE {}) = 0
    BY DEF I!ClearFrames, I!IsIn
  <2>5. frame' = frame /\ framepipe' = framepipe /\ v4l' = v4l
    BY DEF I!ClearFrames
  <2>6. ImxTypeOK
    BY DEF ImxInv
  <2> QED BY <2>1, <2>2, <2>3, <2>4, <2>5, <2>6, PlacesAreNumbers DEF I!Places
<1> QED BY <1>3, <1>4, <1>5 DEF ImxInv

LEMMA ImxVpuDecode == ASSUME ImxInv, I!VpuDecode PROVE ImxInv'
<1>1. CASE \E b \in vpu : I!Picture(b)
  <2>1. PICK b \in vpu : I!Picture(b)
    BY <1>1
  <2>2. b \in I!Buffers /\ decoded + 1 \in 0 .. MaxFrames
    BY BuffersThere DEF ImxInv, ImxTypeOK, ImxPhases, I!VpuDecode
  <2>3. ImxTypeOK' /\ ImxPhases'
    BY <2>1, <2>2 DEF I!Picture, I!VpuDecode, ImxInv, ImxTypeOK, ImxPhases
  <2>4. ImxOnScreen'
    <3> SUFFICES ASSUME onScreen > 0 PROVE shown = content'[v4l[onScreen]]
      BY DEF I!VpuDecode, ImxOnScreen
    <3>1. onScreen \in DOMAIN v4l /\ v4l[onScreen] \in I!Buffers
      BY DEF ImxInv, ImxTypeOK
    <3>2. v4l[onScreen] \notin vpu
      BY <3>1, OnePlace
    <3> QED BY <2>1, <3>1, <3>2 DEF I!Picture, ImxInv, ImxOnScreen, ImxTypeOK
  <2>5. ASSUME NEW c \in I!Buffers PROVE I!Places(c)' = 1
    <3>1. I!Places(c) = 1 /\ ImxTypeOK
      BY DEF ImxInv
    <3>2. /\ I!IsIn(c, IF spc = "write" THEN {currentFrame} ELSE {}) = 0
          /\ I!IsIn(c, vpu) =
               I!IsIn(c, vpu') + I!IsIn(c, IF spc' = "write" THEN {currentFrame'} ELSE {})
      BY <2>1 DEF I!IsIn, I!Picture, I!VpuDecode
    <3>3. UNCHANGED <<frame, framepipe, v4l, clearpipe>>
      BY DEF I!VpuDecode
    <3> QED BY <2>3, <3>1, <3>2, <3>3, PlacesAreNumbers DEF I!Places
  <2> QED BY <2>3, <2>4, <2>5 DEF ImxInv
<1>2. CASE spc' \in {"idle", "exited"} /\ UNCHANGED <<vpu, currentFrame, decoded, content>>
  <2>1. ImxTypeOK' /\ ImxPhases' /\ ImxOnScreen'
    BY <1>2 DEF I!VpuDecode, ImxInv, ImxTypeOK, ImxPhases, ImxOnScreen
  <2>2. ASSUME NEW c \in I!Buffers PROVE I!Places(c)' = 1
    <3>1. I!Places(c) = 1
      BY DEF ImxInv
    <3>2. (IF spc' = "write" THEN {currentFrame'} ELSE {})
            = (IF spc = "write" THEN {currentFrame} ELSE {})
      BY <1>2 DEF I!VpuDecode
    <3>3. UNCHANGED <<vpu, frame, framepipe, v4l, clearpipe>>
      BY <1>2 DEF I!VpuDecode
    <3> QED BY <3>1, <3>2, <3>3 DEF I!Places
  <2> QED BY <2>1, <2>2 DEF ImxInv
<1> QED BY <1>1, <1>2 DEF I!VpuDecode

LEMMA ImxWriteFrame == ASSUME ImxInv, I!WriteFrame PROVE ImxInv'
<1>0. framepipe \in Seq(I!Buffers) /\ currentFrame \in I!Buffers
  BY DEF ImxInv, ImxTypeOK
<1>1. ImxTypeOK' /\ ImxPhases' /\ ImxOnScreen'
  <2>1. Append(framepipe, currentFrame) \in Seq(I!Buffers)
    BY <1>0
  <2> QED BY <2>1 DEF I!WriteFrame, ImxInv, ImxTypeOK, ImxPhases, ImxOnScreen
<1>2. ASSUME NEW b \in I!Buffers PROVE I!Places(b)' = 1
  <2>1. I!Places(b) = 1 /\ ImxTypeOK
    BY DEF ImxInv
  <2>2. /\ I!IsIn(b, IF spc = "write" THEN {currentFrame} ELSE {}) = I!IsIn(b, {currentFrame})
        /\ I!IsIn(b, IF spc' = "write" THEN {currentFrame'} ELSE {}) = 0
    BY DEF I!WriteFrame, I!IsIn
  <2>3. I!Occurrences(framepipe', b) = I!Occurrences(framepipe, b) + I!IsIn(b, {currentFrame})
    BY <1>0, OccurrencesAppend DEF I!WriteFrame
  <2>4. UNCHANGED <<vpu, frame, v4l, clearpipe>>
    BY DEF I!WriteFrame
  <2>7. I!Occurrences(framepipe', b) \in Nat /\ I!IsIn(b, {currentFrame}) \in 0 .. 1
    BY <1>1, OccurrencesType, IsInType DEF ImxTypeOK
  <2> QED BY <1>1, <2>1, <2>2, <2>3, <2>4, <2>7, PlacesAreNumbers DEF I!Places
<1> QED BY <1>1, <1>2 DEF ImxInv

LEMMA ImxReadFrame == ASSUME ImxInv, I!ReadFrame PROVE ImxInv'
<1>0. /\ framepipe \in Seq(I!Buffers) /\ framepipe # <<>> /\ clearpipe \in Seq(I!Buffers)
      /\ frame \in I!Buffers \cup {-1} /\ -1 \notin I!Buffers
  BY BuffersThere DEF ImxInv, ImxTypeOK, I!ReadFrame
<1>1. ImxTypeOK' /\ ImxPhases' /\ ImxOnScreen'
  <2>1. Tail(framepipe) \in Seq(I!Buffers) /\ Head(framepipe) \in I!Buffers
    BY <1>0
  <2>2. frame # -1 => Append(clearpipe, frame) \in Seq(I!Buffers)
    BY <1>0
  <2> QED BY <1>0, <2>1, <2>2 DEF I!ReadFrame, ImxInv, ImxTypeOK, ImxPhases, ImxOnScreen
<1>2. ASSUME NEW b \in I!Buffers PROVE I!Places(b)' = 1
  <2>1. I!Places(b) = 1 /\ ImxTypeOK
    BY DEF ImxInv
  <2>2. I!Occurrences(framepipe, b) = I!Occurrences(framepipe', b) + I!IsIn(b, {frame'})
    BY <1>0, OccurrencesTail DEF I!ReadFrame
  <2>3. I!Occurrences(clearpipe', b) = I!Occurrences(clearpipe, b) + I!IsIn(b, {frame})
    <3>1. CASE frame = -1
      <4>1. I!IsIn(b, {frame}) = 0
        BY <1>0, <3>1 DEF I!IsIn
      <4>2. clearpipe' = clearpipe
        BY <3>1 DEF I!ReadFrame
      <4> QED BY <2>1, <4>1, <4>2, PlacesAreNumbers
    <3>2. CASE frame # -1
      BY <1>0, <3>2, OccurrencesAppend DEF I!ReadFrame
    <3> QED BY <3>1, <3>2
  <2>4. UNCHANGED <<vpu, v4l>>
    BY DEF I!ReadFrame
  <2>6. I!IsIn(b, IF spc' = "write" THEN {currentFrame'} ELSE {})
          = I!IsIn(b, IF spc = "write" THEN {currentFrame} ELSE {})
    BY DEF I!ReadFrame
  <2>7. I!Occurrences(framepipe', b) \in Nat /\ I!IsIn(b, {frame'}) \in 0 .. 1
    BY <1>1, OccurrencesType, IsInType DEF ImxTypeOK
  <2> DEFINE written == I!IsIn(b, IF spc = "write" THEN {currentFrame} ELSE {})
             others == I!IsIn(b, vpu) + written
             othersNext == I!IsIn(b, vpu') + I!IsIn(b, IF spc' = "write" THEN {currentFrame'} ELSE {})
  <2>8. others = othersNext /\ others \in Nat
    BY <2>1, <2>4, <2>6, PlacesAreNumbers
  <2>9. /\ others + I!IsIn(b, {frame}) + I!Occurrences(framepipe, b) + I!Occurrences(v4l, b)
            + I!Occurrences(clearpipe, b) = 1
        /\ I!Places(b)' = othersNext + I!IsIn(b, {frame'}) + I!Occurrences(framepipe', b)
            + I!Occurrences(v4l', b) + I!Occurrences(clearpipe', b)
    BY <2>1 DEF I!Places
  <2>10. /\ I!IsIn(b, {frame}) \in Nat /\ I!Occurrences(framepipe, b) \in Nat
         /\ I!Occurrences(v4l, b) \in Nat /\ I!Occurrences(clearpipe, b) \in Nat
         /\ I!IsIn(b, {frame'}) \in Nat
         /\ I!Occurrences(v4l', b) = I!Occurrences(v4l, b)
    BY <2>1, <2>4, <2>7, PlacesAreNumbers
  <2> HIDE DEF others, othersNext
  <2> QED BY ONLY <2>2, <2>3, <2>7, <2>8, <2>9, <2>10
<1> QED BY <1>1, <1>2 DEF ImxInv

LEMMA ImxQueueFrame == ASSUME ImxInv, I!QueueFrame PROVE ImxInv'
<1>0. v4l \in Seq(I!Buffers) /\ frame \in I!Buffers /\ -1 \notin I!Buffers
  BY BuffersThere DEF ImxInv, ImxTypeOK, ImxPhases, I!QueueFrame
<1>1. /\ Append(v4l, frame) \in Seq(I!Buffers) /\ Len(Append(v4l, frame)) = Len(v4l) + 1
      /\ \A i \in 1 .. Len(v4l) : Append(v4l, frame)[i] = v4l[i]
      /\ Len(v4l) \in Nat
  BY <1>0
<1>2. ImxTypeOK' /\ ImxPhases'
  BY <1>0, <1>1 DEF I!QueueFrame, ImxInv, ImxTypeOK, ImxPhases
<1>3. ImxOnScreen'
  BY <1>1 DEF I!QueueFrame, ImxInv, ImxTypeOK, ImxOnScreen
<1>4. ASSUME NEW b \in I!Buffers PROVE I!Places(b)' = 1
  <2>1. I!Places(b) = 1 /\ ImxTypeOK
    BY DEF ImxInv
  <2>2. I!Occurrences(v4l', b) = I!Occurrences(v4l, b) + I!IsIn(b, {frame})
    BY <1>0, OccurrencesAppend DEF I!QueueFrame
  <2>3. I!IsIn(b, {frame'}) = 0
    BY <1>0 DEF I!QueueFrame, I!IsIn
  <2>4. UNCHANGED <<vpu, framepipe, clearpipe>>
    BY DEF I!QueueFrame
  <2>6. I!IsIn(b, IF spc' = "write" THEN {currentFrame'} ELSE {})
          = I!IsIn(b, IF spc = "write" THEN {currentFrame} ELSE {})
    BY DEF I!QueueFrame
  <2> QED BY <1>2, <2>1, <2>2, <2>3, <2>4, <2>6, PlacesAreNumbers DEF I!Places
<1> QED BY <1>2, <1>3, <1>4 DEF ImxInv

LEMMA ImxDequeueFrame == ASSUME ImxInv, I!DequeueFrame PROVE ImxInv'
<1>0. /\ v4l \in Seq(I!Buffers) /\ v4l # <<>> /\ clearpipe \in Seq(I!Buffers)
      /\ onScreen \in 2 .. Len(v4l) /\ Len(v4l) \in Nat
  <2>1. v4l \in Seq(I!Buffers) /\ clearpipe \in Seq(I!Buffers) /\ onScreen \in 0 .. Len(v4l)
        /\ onScreen > 1
    BY DEF ImxInv, ImxTypeOK, I!DequeueFrame
  <2>2. Len(v4l) \in Nat /\ (v4l = <<>> => Len(v4l) = 0)
    BY <2>1
  <2> QED BY <2>1, <2>2
<1>1. /\ Head(v4l) \in I!Buffers /\ Tail(v4l) \in Seq(I!Buffers) /\ Len(Tail(v4l)) = Len(v4l) - 1
      /\ \A i \in 1 .. Len(v4l) - 1 : Tail(v4l)[i] = v4l[i + 1]
  BY <1>0
<1>2. Append(clearpipe, Head(v4l)) \in Seq(I!Buffers)
  BY <1>0, <1>1
<1>3. ImxTypeOK' /\ ImxPhases'
  BY <1>0, <1>1, <1>2 DEF I!DequeueFrame, ImxInv, ImxTypeOK, ImxPhases
<1>4. ImxOnScreen'
  <2>1. onScreen - 1 \in 1 .. Len(v4l) - 1 /\ (onScreen - 1) + 1 = onScreen
    BY <1>0
  <2> QED BY <1>1, <2>1 DEF I!DequeueFrame, ImxInv, ImxOnScreen
<1>5. ASSUME NEW b \in I!Buffers PROVE I!Places(b)' = 1
  <2>1. I!Places(b) = 1 /\ ImxTypeOK
    BY DEF ImxInv
  <2>2. I!Occurrences(v4l, b) = I!Occurrences(v4l', b) + I!IsIn(b, {Head(v4l)})
    BY <1>0, OccurrencesTail DEF I!DequeueFrame
  <2>3. I!Occurrences(clearpipe', b) = I!Occurrences(clearpipe, b) + I!IsIn(b, {Head(v4l)})
    BY <1>0, <1>1, OccurrencesAppend DEF I!DequeueFrame
  <2>4. UNCHANGED <<vpu, framepipe, frame>>
    BY DEF I!DequeueFrame
  <2>6. I!IsIn(b, IF spc' = "write" THEN {currentFrame'} ELSE {})
          = I!IsIn(b, IF spc = "write" THEN {currentFrame} ELSE {})
    BY DEF I!DequeueFrame
  <2>7. I!Occurrences(v4l', b) \in Nat /\ I!IsIn(b, {Head(v4l)}) \in 0 .. 1
    BY <1>3, OccurrencesType, IsInType DEF ImxTypeOK
  <2> DEFINE written == I!IsIn(b, IF spc = "write" THEN {currentFrame} ELSE {})
             others == I!IsIn(b, vpu) + written
             othersNext == I!IsIn(b, vpu') + I!IsIn(b, IF spc' = "write" THEN {currentFrame'} ELSE {})
  <2>8. others = othersNext /\ others \in Nat
    BY <2>1, <2>4, <2>6, PlacesAreNumbers
  <2>9. /\ others + I!IsIn(b, {frame}) + I!Occurrences(framepipe, b) + I!Occurrences(v4l, b)
            + I!Occurrences(clearpipe, b) = 1
        /\ I!Places(b)' = othersNext + I!IsIn(b, {frame'}) + I!Occurrences(framepipe', b)
            + I!Occurrences(v4l', b) + I!Occurrences(clearpipe', b)
    BY <2>1 DEF I!Places
  <2> HIDE DEF others, othersNext
  <2> QED BY <1>3, <2>1, <2>2, <2>3, <2>4, <2>6, <2>7, <2>8, <2>9, PlacesAreNumbers
<1> QED BY <1>3, <1>4, <1>5 DEF ImxInv

LEMMA ImxShowNext == ASSUME ImxInv, I!ShowNext PROVE ImxInv'
<1>1. v4l \in Seq(I!Buffers) /\ Len(v4l) \in Nat
  BY DEF ImxInv, ImxTypeOK
<1>2. ImxTypeOK' /\ ImxPhases' /\ ImxOnScreen'
  BY <1>1 DEF I!ShowNext, ImxInv, ImxTypeOK, ImxPhases, ImxOnScreen
<1>3. ASSUME NEW b \in I!Buffers PROVE I!Places(b)' = 1
  BY DEF I!ShowNext, ImxInv, I!Places
<1> QED BY <1>2, <1>3 DEF ImxInv

\* The buffers stay where they are as the program ends.
LEMMA ImxEnds ==
  ASSUME ImxInv, UNCHANGED <<decoded, shown, imxVars>>,
         mpc \notin {"read", "exited"}, mpc' # "read", spc' = spc \/ (spc # "write" /\ spc' = "ended")
  PROVE  ImxInv'
<1>1. UNCHANGED <<content, vpu, currentFrame, framepipe, clearpipe, frame, v4l, onScreen>>
  BY DEF imxVars
<1>2. ImxTypeOK' /\ ImxPhases' /\ ImxOnScreen'
  BY <1>1 DEF ImxInv, ImxTypeOK, ImxPhases, ImxOnScreen
<1>3. ASSUME NEW b \in I!Buffers PROVE I!Places(b)' = 1
  <2>1. (IF spc' = "write" THEN {currentFrame'} ELSE {})
          = (IF spc = "write" THEN {currentFrame} ELSE {})
    BY <1>1
  <2> QED BY <1>1, <2>1 DEF ImxInv, I!Places
<1> QED BY <1>2, <1>3 DEF ImxInv

LEMMA ImxDeviceFails == ASSUME ImxInv, I!DeviceFails PROVE ImxInv'
<1>1. /\ mpc' = "exited"
      /\ UNCHANGED <<spc, decoded, shown, content, vpu, currentFrame, framepipe, clearpipe, frame, v4l, onScreen>>
  BY DEF I!DeviceFails, I!imxVars
<1>2. ImxTypeOK' /\ ImxPhases' /\ ImxOnScreen'
  BY <1>1 DEF ImxInv, ImxTypeOK, ImxPhases, ImxOnScreen
<1>3. ASSUME NEW b \in I!Buffers PROVE I!Places(b)' = 1
  BY <1>1 DEF ImxInv, I!Places
<1> QED BY <1>2, <1>3 DEF ImxInv

LEMMA ImxSound == ASSUME ImxInv PROVE I!ImxAccountedFor
BY DEF ImxInv, ImxTypeOK, ImxOnScreen, I!ImxAccountedFor

-----------------------------------------------------------------------------
(* The x11 renderer.                                                       *)

LEMMA EntriesThere ==
  /\ FrameCount \in Nat \ {0} /\ PipeSize \in Nat \ {0} /\ MaxFrames \in Nat
  /\ 0 \in X!Entries
  /\ \A k \in Int : k % FrameCount \in X!Entries
BY StreamingAssumption DEF X!Entries

LEMMA X11Initially == X!Init => X!TypeOK
BY EntriesThere DEF X!Init, X!FramesInit, X!TypeOK, X!FramesTypeOK, X!NoFrame

LEMMA X11Steps ==
  ASSUME X!TypeOK,
         X!Decode \/ X!DecodeNothing \/ X!WritePipe \/ X!FrameHandle
  PROVE  X!TypeOK'
<1>0. next_frame \in X!Entries /\ next_frame \in Int /\ pipe \in Seq(X!Entries)
  BY DEF X!TypeOK, X!FramesTypeOK, X!Entries
<1>1. X!NextEntry \in X!Entries /\ X!current_frame \in X!Entries
  <2>1. next_frame + 1 \in Int /\ next_frame - 1 \in Int
    BY <1>0
  <2> QED BY <2>1, EntriesThere DEF X!NextEntry, X!current_frame
<1>2. CASE X!Decode
  BY <1>0, <1>1, <1>2, EntriesThere DEF X!Decode, X!GetFrame, X!TypeOK, X!FramesTypeOK
<1>3. CASE X!DecodeNothing
  BY <1>0, <1>3, EntriesThere DEF X!DecodeNothing, X!GetNoFrame, X!NoFrame, X!TypeOK, X!FramesTypeOK
<1>4. CASE X!WritePipe
  <2>1. /\ Append(pipe, X!current_frame) \in Seq(X!Entries) /\ Len(pipe) \in Nat
        /\ Len(Append(pipe, X!current_frame)) = Len(pipe) + 1
    BY <1>0, <1>1
  <2>2. pipe' \in Seq(X!Entries) /\ Len(pipe') <= PipeSize
    BY <1>4, <2>1, EntriesThere DEF X!WritePipe
  <2> QED BY <1>4, <2>2 DEF X!WritePipe, X!TypeOK, X!FramesTypeOK, X!frameVars
<1>5. CASE X!ReadPipe
  <2>1. <<>> \in Seq(X!Entries) /\ Len(<<>>) = 0
    OBVIOUS
  <2>2. pipe[Len(pipe)] \in X!Entries
    BY <1>0, <1>5 DEF X!ReadPipe
  <2> QED BY <1>5, <2>1, <2>2, EntriesThere DEF X!ReadPipe, X!TypeOK, X!FramesTypeOK, X!frameVars
<1>6. CASE X!DrawBegin
  BY <1>6 DEF X!DrawBegin, X!TypeOK, X!FramesTypeOK, X!frameVars
<1>7. CASE X!DrawEnd
  BY <1>7 DEF X!DrawEnd, X!TypeOK, X!FramesTypeOK, X!frameVars
<1> QED BY <1>2, <1>3, <1>4, <1>5, <1>6, <1>7 DEF X!FrameHandle

LEMMA X11CleansUp ==
  ASSUME X!TypeOK, X!CleanUp, UNCHANGED <<spc, decoded, shown, next_frame, pipe, entry, drawn>>,
         mpc' = "done"
  PROVE  X!TypeOK'
BY EntriesThere DEF X!CleanUp, X!NoFrame, X!TypeOK, X!FramesTypeOK

-----------------------------------------------------------------------------
(* The MMAL renderer.                                                      *)

LEMMA BoundsThere ==
  /\ InBuffers \in Nat /\ InBuffers > 0 /\ OutBuffers \in Nat
  /\ MAX_WRITE_ATTEMPTS \in Nat /\ MAX_WRITE_ATTEMPTS > 0 /\ CodecSize \in Nat /\ VideoBuffers \in Nat
BY StreamingAssumption

MmalInv ==
  /\ poolIn \in Nat /\ inDecoder \in Nat /\ semaphore \in Nat
  /\ poolOut \in Nat /\ outDecoder \in Nat /\ inRenderer \in Nat
  /\ held \in BOOLEAN /\ posting \in BOOLEAN
  /\ M!MmalAccountedFor

LEMMA MmalInitially == ASSUME M!InputsInit, M!MmalInit, spc = "idle" PROVE MmalInv
<1>1. M!MmalAccountedFor
  BY BoundsThere DEF M!InputsInit, M!MmalInit, M!MmalAccountedFor, M!InUse
<1>2. held \in BOOLEAN /\ posting \in BOOLEAN
  BY DEF M!InputsInit, M!MmalInit
<1> QED BY <1>1, <1>2, BoundsThere DEF M!InputsInit, M!MmalInit, MmalInv

LEMMA MmalSteps ==
  ASSUME MmalInv,
         \/ \E u \in Units : M!BeginUnit(u)
         \/ M!MmalSubmit \/ M!CopyFails \/ M!Callbacks \/ M!OutputCallbacks,
         UNCHANGED mpc
  PROVE  MmalInv'
<1> USE BoundsThere DEF MmalInv, M!MmalAccountedFor, M!InUse
<1>1. CASE \E u \in Units : M!BeginUnit(u)
  BY <1>1 DEF M!BeginUnit, M!mmalVars
<1>2. CASE M!GetBuffer
  <2>1. /\ held = FALSE /\ spc' \in {"entries", "idle"} /\ semaphore' = semaphore - 1 /\ semaphore > 0
        /\ UNCHANGED <<inDecoder, posting, poolOut, outDecoder, inRenderer>>
        /\ \/ poolIn > 0 /\ held' = TRUE /\ poolIn' = poolIn - 1
           \/ held' = FALSE /\ poolIn' = poolIn
    BY <1>2 DEF M!GetBuffer
  <2>2. M!MmalAccountedFor'
    BY <2>1
  <2>3. held' \in BOOLEAN /\ posting' \in BOOLEAN
    BY <2>1
  <2>4. /\ poolIn' \in Nat /\ inDecoder' \in Nat /\ semaphore' \in Nat
        /\ poolOut' \in Nat /\ outDecoder' \in Nat /\ inRenderer' \in Nat
    BY <2>1
  <2> QED BY ONLY <2>2, <2>3, <2>4 DEF MmalInv
<1>3. CASE M!CopyEntry
  <2>1. CASE M!EndsBuffer
    <3>1. held = TRUE /\ held' = FALSE /\ inDecoder' = inDecoder + 1
      BY <1>3, <2>1 DEF M!CopyEntry
    <3>2. UNCHANGED <<spc, poolIn, semaphore, posting, poolOut, outDecoder, inRenderer>>
      BY <1>3 DEF M!CopyEntry, M!mmalVars
    <3>3. M!MmalAccountedFor'
      BY <3>1, <3>2
    <3>4. held' \in BOOLEAN /\ posting' \in BOOLEAN
      BY <3>1, <3>2
    <3> QED BY <3>1, <3>2, <3>3, <3>4 DEF MmalInv
  <2>2. CASE ~M!EndsBuffer
    BY <1>3, <2>2 DEF M!CopyEntry, M!mmalVars
  <2> QED BY <2>1, <2>2
<1>4. CASE M!AllSent
  BY <1>4 DEF M!AllSent, M!inputVars, M!mmalVars
<1>5. CASE M!GiveOutput
  BY <1>5 DEF M!GiveOutput, M!inputVars
<1>6. CASE M!CopyFails
  <2>1. M!MmalAccountedFor'
    BY <1>6 DEF M!CopyFails, M!mmalVars
  <2>2. held' \in BOOLEAN /\ posting' \in BOOLEAN
    BY <1>6 DEF M!CopyFails, M!mmalVars
  <2>3. /\ poolIn' \in Nat /\ inDecoder' \in Nat /\ semaphore' \in Nat
        /\ poolOut' \in Nat /\ outDecoder' \in Nat /\ inRenderer' \in Nat
    BY <1>6 DEF M!CopyFails, M!mmalVars
  <2> QED BY ONLY <2>1, <2>2, <2>3 DEF MmalInv
<1>7. CASE M!ReleaseInput
  BY <1>7 DEF M!ReleaseInput
<1>8. CASE M!PostSemaphore
  <2>1. M!MmalAccountedFor'
    BY <1>8 DEF M!PostSemaphore, M!inputVars
  <2>2. held' \in BOOLEAN /\ posting' \in BOOLEAN
    BY <1>8 DEF M!PostSemaphore, M!inputVars
  <2>3. /\ poolIn' \in Nat /\ inDecoder' \in Nat /\ semaphore' \in Nat
        /\ poolOut' \in Nat /\ outDecoder' \in Nat /\ inRenderer' \in Nat
    BY <1>8 DEF M!PostSemaphore, M!inputVars
  <2> QED BY ONLY <2>1, <2>2, <2>3 DEF MmalInv
<1>9. CASE M!OutputCallback
  BY <1>9 DEF M!OutputCallback, M!inputVars
<1>10. CASE M!ReleaseOutput
  BY <1>10 DEF M!ReleaseOutput, M!inputVars
<1> QED BY <1>1, <1>2, <1>3, <1>4, <1>5, <1>6, <1>7, <1>8, <1>9, <1>10
        DEF M!MmalSubmit, M!Callbacks, M!OutputCallbacks

\* The decoder goes before the renderer, and the semaphore with it.
LEMMA MmalCleansUp == ASSUME MmalInv, M!MmalCleanUp PROVE MmalInv'
<1> USE DEF MmalInv, M!MmalAccountedFor, M!InUse
<1>1. CASE M!HandBack
  <2>1. M!MmalAccountedFor'
    BY <1>1 DEF M!HandBack, M!inputVars
  <2>2. held' \in BOOLEAN /\ posting' \in BOOLEAN
    BY <1>1 DEF M!HandBack, M!inputVars
  <2>3. /\ poolIn' \in Nat /\ inDecoder' \in Nat /\ semaphore' \in Nat
        /\ poolOut' \in Nat /\ outDecoder' \in Nat /\ inRenderer' \in Nat
    BY <1>1 DEF M!HandBack, M!inputVars
  <2> QED BY ONLY <2>1, <2>2, <2>3 DEF MmalInv
<1>2. CASE M!DestroyDecoder
  BY <1>2 DEF M!DestroyDecoder, M!inputVars
<1>3. CASE M!ReleaseLate
  <2>1. M!MmalAccountedFor'
    BY <1>3 DEF M!ReleaseLate, M!inputVars
  <2>2. held' \in BOOLEAN /\ posting' \in BOOLEAN
    BY <1>3 DEF M!ReleaseLate, M!inputVars
  <2>3. /\ poolIn' \in Nat /\ inDecoder' \in Nat /\ semaphore' \in Nat
        /\ poolOut' \in Nat /\ outDecoder' \in Nat /\ inRenderer' \in Nat
    BY <1>3 DEF M!ReleaseLate, M!inputVars
  <2> QED BY ONLY <2>1, <2>2, <2>3 DEF MmalInv
<1>4. CASE M!DestroyRenderer
  BY <1>4 DEF M!DestroyRenderer, M!inputVars, M!mmalVars
<1> QED BY <1>1, <1>2, <1>3, <1>4 DEF M!MmalCleanUp

-----------------------------------------------------------------------------
(* The OpenMAX renderer.                                                   *)

PiInv ==
  /\ poolIn \in Nat /\ inDecoder \in Nat /\ port_settings_changed \in {0, 1}
  /\ held \in BOOLEAN /\ announced \in BOOLEAN /\ event \in BOOLEAN
  /\ P!PiAccountedFor

LEMMA PiInitially == ASSUME M!InputsInit, P!PiInit, spc = "idle" PROVE PiInv
<1>1. P!PiAccountedFor
  BY BoundsThere DEF M!InputsInit, P!PiInit, P!PiAccountedFor, P!InUse
<1>2. held \in BOOLEAN /\ announced \in BOOLEAN /\ event \in BOOLEAN
  BY DEF M!InputsInit, P!PiInit
<1> QED BY <1>1, <1>2, BoundsThere DEF M!InputsInit, P!PiInit, PiInv

LEMMA PiSteps ==
  ASSUME PiInv,
         \/ \E u \in Units : P!BeginUnit(u)
         \/ P!PiSubmit \/ P!SendFails \/ P!Decoder,
         UNCHANGED mpc
  PROVE  PiInv'
<1> USE BoundsThere DEF PiInv, P!PiAccountedFor, P!InUse
<1>1. CASE \E u \in Units : P!BeginUnit(u)
  BY <1>1 DEF P!BeginUnit, P!piVars
<1>2. CASE P!GetInput
  BY <1>2 DEF P!GetInput, P!piVars
<1>3. CASE P!CopyEntry
  BY <1>3 DEF P!CopyEntry, P!piVars
<1>4. CASE P!SendInput
  <2>1. P!PiAccountedFor'
    BY <1>4 DEF P!SendInput
  <2>2. held' \in BOOLEAN /\ announced' \in BOOLEAN /\ event' \in BOOLEAN
    BY <1>4 DEF P!SendInput
  <2>3. poolIn' \in Nat /\ inDecoder' \in Nat /\ port_settings_changed' \in {0, 1}
    BY <1>4 DEF P!SendInput
  <2> QED BY ONLY <2>1, <2>2, <2>3 DEF PiInv
<1>5. CASE P!UnitSent
  BY <1>5 DEF P!UnitSent, P!inputVars, P!piVars
<1>6. CASE P!SendFails
  BY <1>6 DEF P!SendFails, P!inputVars, P!piVars
<1>7. CASE P!Announce
  BY <1>7 DEF P!Announce, P!inputVars
<1>8. CASE P!TakeInput
  BY <1>8 DEF P!TakeInput, P!piVars
<1> QED BY <1>1, <1>2, <1>3, <1>4, <1>5, <1>6, <1>7, <1>8 DEF P!PiSubmit, P!Decoder

LEMMA PiCleansUp == ASSUME PiInv, P!PiCleanUp PROVE PiInv'
BY DEF PiInv, P!PiAccountedFor, P!InUse, P!PiCleanUp, P!piVars

-----------------------------------------------------------------------------
(* The AMLogic renderer.                                                   *)

AmlInv ==
  /\ A!AmlOpenInUse
  /\ length \in Nat /\ done \in BOOLEAN
  /\ dpc \in {"none", "look", "dequeue", "queue", "ended"}
  /\ spc = "codec" => errCounter < MAX_WRITE_ATTEMPTS
  /\ mpc \in {"cleanup", "join", "done"} => spc = "ended"
  /\ mpc = "join" => dpc # "none"

LEMMA AmlInitially == ASSUME A!AmlInit, spc = "idle", mpc = "loop" PROVE AmlInv
<1>1. A!AmlOpenInUse
  BY BoundsThere DEF A!AmlInit, A!AmlOpenInUse
<1>2. length \in Nat /\ done \in BOOLEAN
  BY DEF A!AmlInit
<1>3. dpc \in {"none", "look", "dequeue", "queue", "ended"}
  BY DEF A!AmlInit
<1>4. spc # "codec" /\ mpc \notin {"cleanup", "join", "done"}
  OBVIOUS
<1> QED BY <1>1, <1>2, <1>3, <1>4 DEF AmlInv

LEMMA AmlSteps ==
  ASSUME AmlInv,
         \/ A!BeginPacket /\ Receiving
         \/ A!AmlSubmit \/ A!WriteFails \/ A!DisplayFails \/ A!CodecDecodes \/ A!Display
         \/ A!AmlCleanUp \/ A!Join
  PROVE  AmlInv'
<1> USE BoundsThere DEF AmlInv, A!AmlOpenInUse
<1>1. CASE A!BeginPacket /\ Receiving
  BY <1>1 DEF A!BeginPacket, Receiving
<1>2. CASE A!Write
  BY <1>2 DEF A!Write
<1>3. CASE A!WriteAgain
  BY <1>3 DEF A!WriteAgain
<1>4. CASE A!Written
  BY <1>4 DEF A!Written, A!amlVars
<1>5. CASE A!WriteFails
  BY <1>5 DEF A!WriteFails
<1>6. CASE A!DisplayFails
  BY <1>6 DEF A!DisplayFails
<1>7. CASE A!CodecDecodes
  BY <1>7 DEF A!CodecDecodes
<1>8. CASE A!Look \/ A!DequeuePicture \/ A!QueuePicture
  BY <1>8 DEF A!Look, A!DequeuePicture, A!QueuePicture
<1>9. CASE A!AmlCleanUp
  BY <1>9 DEF A!AmlCleanUp
<1>10. CASE A!Join
  BY <1>10 DEF A!Join, A!amlVars
<1> QED BY <1>1, <1>2, <1>3, <1>4, <1>5, <1>6, <1>7, <1>8, <1>9, <1>10
        DEF A!AmlSubmit, A!Display

-----------------------------------------------------------------------------
(* The stream.                                                             *)

\* Whichever renderer runs, its own invariant holds; before there is one, each of
\* them would do.
BuffersInv ==
  /\ renderer \in {"none"} \cup {RendererOf[s] : s \in DOMAIN RendererOf}
  /\ renderer # "none" => stage = "stream" /\ system = "NONE"
  /\ renderer = "none" => mpc = "loop" /\ spc = "idle" /\ dpc = "none"
  /\ renderer \in {"none", "x11"} => X!TypeOK
  /\ renderer \in {"none", "IMX"} => ImxInv
  /\ renderer \in {"none", "MMAL"} => MmalInv
  /\ renderer \in {"none", "PI"} => PiInv
  /\ renderer \in {"none", "AML"} => AmlInv

LEMMA BuffersInitially == Init => BuffersInv
<1> SUFFICES ASSUME Init PROVE BuffersInv
  OBVIOUS
<1>1. X!Init /\ I!ImxInit /\ M!InputsInit /\ M!MmalInit /\ P!PiInit /\ A!AmlInit /\ renderer = "none"
  BY DEF Init
<1>2. mpc = "loop" /\ spc = "idle" /\ decoded = 0 /\ dpc = "none"
  BY <1>1 DEF X!Init, X!FramesInit, A!AmlInit
<1> QED BY <1>1, <1>2, X11Initially, ImxInitially, MmalInitially, PiInitially, AmlInitially DEF BuffersInv

LEMMA StartKeepsBuffers == ASSUME BuffersInv, Start PROVE BuffersInv'
<1>1. renderer = "none"
  <2> SUFFICES ASSUME stage = "stream" PROVE FALSE
    BY DEF BuffersInv
  <2> QED BY DEF Start, StartupNext, BeginParse, Parse, ReadLine, Reading, DefaultsRead, ReadOption,
       OptionsRead, SaveOpen, SaveClose, HostRead, KillParse, EndParse, ChoosePlatform
<1>2. UNCHANGED <<renderer, streamVars>>
  BY DEF Start
<1>3. UNCHANGED <<spc, mpc, decoded, shown, x11Vars, imxVars, bufferVars, mmalVars, piVars, amlVars, pictures>>
  BY <1>2 DEF streamVars
<1>4. UNCHANGED <<dpc, length, errCounter, codec, done>> /\ UNCHANGED <<unit, held, poolIn, inDecoder>>
  BY <1>3 DEF amlVars, bufferVars
<1>5. X!TypeOK'
  BY <1>1, <1>3 DEF BuffersInv, x11Vars, X!TypeOK, X!FramesTypeOK
<1>6. ImxInv'
  BY <1>1, <1>3, ImxEnds DEF BuffersInv
<1>7. MmalInv'
  BY <1>1, <1>3, <1>4 DEF BuffersInv, mmalVars, MmalInv, M!MmalAccountedFor
<1>8. PiInv'
  BY <1>1, <1>3, <1>4 DEF BuffersInv, piVars, PiInv, P!PiAccountedFor
<1>9. AmlInv'
  BY <1>1, <1>3, <1>4 DEF BuffersInv, AmlInv, A!AmlOpenInUse
<1> QED BY <1>1, <1>2, <1>3, <1>4, <1>5, <1>6, <1>7, <1>8, <1>9 DEF BuffersInv

LEMMA ConnectKeepsBuffers == ASSUME BuffersInv, Connect PROVE BuffersInv'
<1>1. renderer = "none" /\ stage = "stream"
  BY DEF BuffersInv, Connect, AboutToStream
<1>2. /\ renderer' \in {RendererOf[s] : s \in DOMAIN RendererOf}
      /\ stage' = "stream" /\ system' = "NONE"
  BY <1>1 DEF Connect
<1>3. /\ UNCHANGED <<spc, mpc, decoded, shown, x11Vars, imxVars, bufferVars, mmalVars, piVars>>
      /\ UNCHANGED <<length, errCounter, codec, done, pictures>>
      /\ dpc' \in {"none", "look"}
  <2>1. dpc = "none"
    BY <1>1 DEF BuffersInv
  <2> QED BY <2>1 DEF Connect, A!aml_setup
<1>4. UNCHANGED <<unit, held, poolIn, inDecoder>>
  BY <1>3 DEF bufferVars
<1>5. X!TypeOK'
  BY <1>1, <1>3 DEF BuffersInv, x11Vars, X!TypeOK, X!FramesTypeOK
<1>6. ImxInv'
  BY <1>1, <1>3, ImxEnds DEF BuffersInv
<1>7. MmalInv'
  BY <1>1, <1>3, <1>4 DEF BuffersInv, mmalVars, MmalInv, M!MmalAccountedFor
<1>8. PiInv'
  BY <1>1, <1>3, <1>4 DEF BuffersInv, piVars, PiInv, P!PiAccountedFor
<1>9. AmlInv'
  BY <1>1, <1>3 DEF BuffersInv, AmlInv, A!AmlOpenInUse
<1>10. renderer' # "none"
  BY <1>2 DEF RendererOf
<1> QED BY <1>2, <1>5, <1>6, <1>7, <1>8, <1>9, <1>10 DEF BuffersInv

\* What a program does once it streams.
StreamStep ==
  Running /\ (Packet \/ Submit \/ Failure \/ Handle \/ Devices \/ Others \/ LeaveLoop \/ EndSubmit \/ CleanUp)

\* The only renderer whose invariant a step of the stream has to keep is its own.
LEMMA OneRenderer ==
  ASSUME BuffersInv, StreamStep
  PROVE  /\ renderer # "none" /\ UNCHANGED <<renderer, stage, system>>
<1>1. renderer # "none"
  BY DEF BuffersInv, StreamStep, Packet, Submit, Failure, Handle, Devices, Others, LeaveLoop, EndSubmit,
         CleanUp, X11CleanUp, ImxCleanUp, BoardCleanUp, X11, SDL, IMX, MMAL, PI, AML
<1>2. UNCHANGED startVars
  BY DEF StreamStep, Packet, Submit, Failure, Handle, Devices, Others, LeaveLoop, EndSubmit,
         CleanUp, X11CleanUp, ImxCleanUp, BoardCleanUp, X11, SDL, IMX, MMAL, PI, AML
<1> QED BY <1>1, <1>2 DEF startVars, settingsVars, startupVars

LEMMA X11Keeps ==
  ASSUME BuffersInv, StreamStep, renderer = "x11"
  PROVE  X!TypeOK'
<1>0. X!TypeOK
  BY DEF BuffersInv
<1>1. CASE X11 /\ (X!Decode \/ X!DecodeNothing \/ X!WritePipe \/ X!FrameHandle)
  BY <1>0, <1>1, X11Steps
<1>2. CASE /\ X11 /\ X!CleanUp /\ mpc' = "done"
           /\ UNCHANGED <<spc, decoded, shown, next_frame, pipe, entry, drawn>>
  BY <1>0, <1>2, X11CleansUp
<1>3. CASE LeaveLoop \/ EndSubmit
  BY <1>0, <1>3 DEF LeaveLoop, EndSubmit, x11Vars, X!TypeOK, X!FramesTypeOK
<1> QED BY <1>1, <1>2, <1>3 DEF StreamStep, Packet, Submit, Failure, Handle, Devices, Others,
         CleanUp, X11CleanUp, ImxCleanUp, BoardCleanUp,
         SDL, IMX, MMAL, PI, AML

LEMMA ImxKeeps ==
  ASSUME BuffersInv, StreamStep, renderer = "IMX"
  PROVE  ImxInv'
<1>0. ImxInv
  BY DEF BuffersInv
<1>1. CASE I!ClearFrames \/ I!VpuDecode \/ I!WriteFrame
  BY <1>0, <1>1, ImxClearFrames, ImxVpuDecode, ImxWriteFrame
<1>2. CASE I!ImxHandle
  BY <1>0, <1>2, ImxReadFrame, ImxQueueFrame, ImxDequeueFrame DEF I!ImxHandle
<1>3. CASE I!ShowNext
  BY <1>0, <1>3, ImxShowNext
<1>5. CASE I!DeviceFails
  BY <1>0, <1>5, ImxDeviceFails
<1>4. CASE LeaveLoop \/ EndSubmit \/ (mpc = "cleanup" /\ mpc' = "done" /\ UNCHANGED <<spc, decoded, shown, imxVars>>)
  <2>1. /\ UNCHANGED <<decoded, shown, imxVars>> /\ mpc \notin {"read", "exited"} /\ mpc' # "read"
        /\ spc' = spc \/ (spc # "write" /\ spc' = "ended")
    BY <1>4 DEF LeaveLoop, EndSubmit
  <2> QED BY <1>0, <2>1, ImxEnds
<1> QED BY <1>1, <1>2, <1>3, <1>4, <1>5 DEF StreamStep, Packet, Submit, Failure, Handle, Devices, Others,
         CleanUp, X11CleanUp, ImxCleanUp, BoardCleanUp,
         X11, SDL, MMAL, PI, AML

LEMMA MmalKeeps ==
  ASSUME BuffersInv, StreamStep, renderer = "MMAL"
  PROVE  MmalInv'
<1>0. MmalInv
  BY DEF BuffersInv
<1>1. CASE /\ \/ \E u \in Units : M!BeginUnit(u)
              \/ M!MmalSubmit \/ M!CopyFails \/ M!Callbacks \/ M!OutputCallbacks
           /\ UNCHANGED mpc
  BY <1>0, <1>1, MmalSteps
<1>2. CASE UNCHANGED <<bufferVars, mmalVars>> /\ spc' \in {spc, "ended"} /\ mpc \in {"loop", "stopping"}
  BY <1>0, <1>2 DEF bufferVars, mmalVars, MmalInv, M!MmalAccountedFor
<1>3. CASE M!MmalCleanUp
  BY <1>0, <1>3, MmalCleansUp
<1> QED BY <1>1, <1>2, <1>3 DEF StreamStep, Packet, Submit, Failure, Handle, Devices, Others,
         CleanUp, X11CleanUp, ImxCleanUp, BoardCleanUp,
         LeaveLoop, EndSubmit, X11, SDL, IMX, MMAL, PI, AML

LEMMA PiKeeps ==
  ASSUME BuffersInv, StreamStep, renderer = "PI"
  PROVE  PiInv'
<1>0. PiInv
  BY DEF BuffersInv
<1>1. CASE /\ (\E u \in Units : P!BeginUnit(u)) \/ P!PiSubmit \/ P!SendFails \/ P!Decoder
           /\ UNCHANGED mpc
  BY <1>0, <1>1, PiSteps
<1>2. CASE UNCHANGED <<bufferVars, piVars>> /\ spc' \in {spc, "ended"} /\ mpc \in {"loop", "stopping"}
  BY <1>0, <1>2 DEF bufferVars, piVars, PiInv, P!PiAccountedFor
<1>3. CASE P!PiCleanUp
  BY <1>0, <1>3, PiCleansUp
<1>4. CASE Packet \/ Submit \/ Failure \/ Handle \/ Devices \/ Others
  BY <1>1, <1>4 DEF Packet, Submit, Failure, Handle, Devices, Others, X11, SDL, IMX, MMAL, PI, AML
<1>5. CASE LeaveLoop \/ EndSubmit
  BY <1>2, <1>5 DEF LeaveLoop, EndSubmit
<1>6. CASE CleanUp
  BY <1>3, <1>6 DEF CleanUp, X11CleanUp, ImxCleanUp, BoardCleanUp, X11, IMX, AML
<1> QED BY <1>4, <1>5, <1>6 DEF StreamStep

LEMMA AmlKeeps ==
  ASSUME BuffersInv, StreamStep, renderer = "AML"
  PROVE  AmlInv'
<1>0. AmlInv
  BY DEF BuffersInv
<1>1. CASE \/ A!BeginPacket /\ Receiving
           \/ A!AmlSubmit \/ A!WriteFails \/ A!DisplayFails \/ A!CodecDecodes \/ A!Display
           \/ A!AmlCleanUp \/ A!Join
  BY <1>0, <1>1, AmlSteps
<1>2. CASE LeaveLoop \/ EndSubmit
  <2>1. UNCHANGED <<dpc, length, errCounter, codec, done, pictures>>
    BY <1>2 DEF LeaveLoop, EndSubmit, amlVars
  <2> QED BY <1>0, <1>2, <2>1 DEF LeaveLoop, EndSubmit, AmlInv, A!AmlOpenInUse
<1> QED BY <1>1, <1>2 DEF StreamStep, Packet, Submit, Failure, Handle, Devices, Others,
         CleanUp, X11CleanUp, ImxCleanUp, BoardCleanUp,
         X11, SDL, IMX, MMAL, PI, AML

LEMMA BuffersKept == BuffersInv /\ [Next]_vars => BuffersInv'
<1> SUFFICES ASSUME BuffersInv, [Next]_vars PROVE BuffersInv'
  OBVIOUS
<1>1. CASE Start
  BY <1>1, StartKeepsBuffers
<1>2. CASE Connect
  BY <1>2, ConnectKeepsBuffers
<1>3. CASE StreamStep
  BY <1>3, OneRenderer, X11Keeps, ImxKeeps, MmalKeeps, PiKeeps, AmlKeeps DEF BuffersInv
<1>4. CASE UNCHANGED vars
  <2>1. UNCHANGED <<renderer, stage, system, spc, mpc, decoded, shown, x11Vars, imxVars, unit, held, poolIn,
                    inDecoder, mmalVars, piVars, length, errCounter, codec, dpc, done, pictures>>
    BY <1>4 DEF vars, startVars, settingsVars, startupVars, streamVars, bufferVars, amlVars
  <2>2. X!TypeOK' = X!TypeOK
    BY <2>1 DEF x11Vars, X!TypeOK, X!FramesTypeOK
  <2>3. ImxInv' = ImxInv
    BY <2>1 DEF imxVars, ImxInv, ImxTypeOK, ImxPhases, ImxOnScreen, I!Places
  <2>4. MmalInv' = MmalInv /\ PiInv' = PiInv /\ AmlInv' = AmlInv
    BY <2>1 DEF mmalVars, piVars, MmalInv, M!MmalAccountedFor, PiInv, P!PiAccountedFor, AmlInv, A!AmlOpenInUse
  <2> QED BY <2>1, <2>2, <2>3, <2>4 DEF BuffersInv
<1> QED BY <1>1, <1>2, <1>3, <1>4 DEF Next, StreamStep

\* For any number of buffers, on each of the five renderers that pass them on: no buffer
\* is lost or in two hands, the semaphore of MMAL is free only when an input buffer is,
\* the picture on an i.MX6's screen is not decoded over, the pipe of x11 never holds more
\* than it can, and nothing of an AMLogic is used once it is closed.
THEOREM NoBufferLost == Spec => []BuffersAccountedFor
<1>1. BuffersInv => BuffersAccountedFor
  BY ImxSound DEF BuffersInv, BuffersAccountedFor, MmalInv, PiInv, AmlInv
<1> QED BY <1>1, BuffersInitially, BuffersKept, PTL DEF Spec

-----------------------------------------------------------------------------
(* From the configuration to the stream.                                   *)

Systems == {"IMX", "PI", "MMAL", "AML", "RK", "X11_VAAPI", "SDL", "X11", "FAKE", "NONE"}

LEMMA PlatformType == ASSUME NEW name, NEW m PROVE platform_check(name, m) \in Systems
<1> DEFINE Fits(i) == name \in {"auto", Platforms[i]} /\ Platforms[i] \in m.found
           First == CHOOSE i \in 1 .. Len(Platforms) : Fits(i) /\ \A j \in 1 .. i - 1 : ~Fits(j)
<1>1. /\ Len(Platforms) = 5
      /\ \A i \in 1 .. 5 : Platforms[i] \in DOMAIN SystemOf /\ SystemOf[Platforms[i]] \in Systems
  BY DEF Platforms, SystemOf, Systems
<1>2. ASSUME \E i \in 1 .. 5 : Fits(i)
      PROVE  SystemOf[Platforms[First]] \in Systems
  <2> HIDE DEF Fits
  <2>1. \E i \in 1 .. 5 : Fits(i) /\ \A j \in 1 .. i - 1 : ~Fits(j)
    <3>1. CASE Fits(1)
      BY <3>1
    <3>2. CASE ~Fits(1) /\ Fits(2)
      BY <3>2
    <3>3. CASE ~Fits(1) /\ ~Fits(2) /\ Fits(3)
      BY <3>3
    <3>4. CASE ~Fits(1) /\ ~Fits(2) /\ ~Fits(3) /\ Fits(4)
      BY <3>4
    <3>5. CASE ~Fits(1) /\ ~Fits(2) /\ ~Fits(3) /\ ~Fits(4) /\ Fits(5)
      BY <3>5
    <3> QED BY <1>2, <3>1, <3>2, <3>3, <3>4, <3>5
  <2>2. First \in 1 .. 5
    BY <1>1, <2>1
  <2> QED BY <1>1, <2>2
<1>3. CASE \E i \in 1 .. 5 : Fits(i)
  BY <1>1, <1>2, <1>3 DEF platform_check
<1>4. CASE ~\E i \in 1 .. 5 : Fits(i)
  BY <1>1, <1>4 DEF platform_check, Systems
<1> QED BY <1>3, <1>4

StartupInv ==
  /\ stage # "stream" => system = "NONE"
  /\ AboutToStream => system \in Systems /\ formats = Offered(config, system)

LEMMA StartupInitially == Init => StartupInv
BY DEF Init, StartupInit, SettingsInit, StartupInv, AboutToStream

LEMMA StartupKept == ASSUME StartupInv, [Next]_vars PROVE StartupInv'
<1>1. CASE Start
  <2>1. CASE ChoosePlatform
    BY <2>1, PlatformType DEF ChoosePlatform, StartupInv, AboutToStream, Offered, Uses
  <2>2. CASE UNCHANGED startupVars /\ stage # "stream" /\ stage' # "stream"
    BY <2>2 DEF startupVars, StartupInv, AboutToStream
  <2> QED BY <1>1, <2>1, <2>2 DEF Start, StartupNext, BeginParse, Parse, ReadLine, Reading, DefaultsRead,
       ReadOption, OpenFile, Finish, OptionsRead, SaveOpen, SaveClose, HostRead, KillParse, Exit, EndParse, Over
<1>2. CASE Connect
  BY <1>2 DEF Connect, AboutToStream, StartupInv
<1>3. CASE UNCHANGED startVars
  BY <1>3 DEF startVars, settingsVars, startupVars, StartupInv, AboutToStream
<1>4. StreamStep => UNCHANGED startVars
  BY DEF StreamStep, Packet, Submit, Failure, Handle, Devices, Others, LeaveLoop, EndSubmit,
         CleanUp, X11CleanUp, ImxCleanUp, BoardCleanUp, X11, SDL, IMX, MMAL, PI, AML
<1> QED BY <1>1, <1>2, <1>3, <1>4 DEF Next, StreamStep, vars

\* The last of the six attempts decides: it keeps the decoder it is given or looks one
\* up itself, and leaves no other context behind than that decoder's.
LEMMA LastAttempt ==
  ASSUME NEW r, NEW names, NEW m
  PROVE  LET t == OneTry(r, names, m) IN
         /\ names = {} => t.decoder = r.decoder
         /\ names \subseteq m.ffmpeg /\ names # {} => t.decoder = names
         /\ t.decoder # {} => t.ctx = t.decoder \/ t.decoder \subseteq m.broken
<1>1. ASSUME NEW d
      PROVE  LET t == OpenDecoder(r, d, m) IN
             t.decoder = d /\ (d = {} \/ t.ctx = d \/ d \subseteq m.broken)
  BY DEF OpenDecoder
<1>2. LET d == Decoder(r, names, m) IN
      /\ names = {} => d = r.decoder
      /\ names \subseteq m.ffmpeg /\ names # {} => d = names
  BY DEF Decoder
<1> QED BY <1>1, <1>2 DEF OneTry

LEMMA DecoderFound ==
  ASSUME NEW format, NEW hardware, NEW m, Generic(format) \in m.ffmpeg, CodecOfFormat(format) # "av1"
  PROVE  ffmpeg_init(format, hardware, m).decoder # {}
<1> DEFINE names == Lookups(format, hardware)
           Try(r, i) == OneTry(r, names[i], m)
           r4 == Try(Try(Try(Try([decoder |-> {}, ctx |-> {}, opened |-> 0], 1), 2), 3), 4)
<1>1. names[5] = {Generic(format)} /\ names[6] = {}
  BY DEF Lookups
<1>2. Try(Try(r4, 5), 6) = ffmpeg_init(format, hardware, m)
  BY DEF ffmpeg_init
<1> HIDE DEF names, r4
<1>3. Try(r4, 5).decoder = {Generic(format)}
  BY <1>1, LastAttempt
<1>4. Try(Try(r4, 5), 6).decoder = {Generic(format)}
  <2> DEFINE r5 == Try(r4, 5)
  <2> HIDE DEF r5
  <2>1. Try(r5, 6).decoder = r5.decoder
    BY <1>1, LastAttempt
  <2> QED BY <1>3, <2>1 DEF r5
<1> QED BY <1>2, <1>4

LEMMA DecoderOpen ==
  ASSUME NEW format, NEW hardware, NEW m
  PROVE  LET r == ffmpeg_init(format, hardware, m) IN
         r.decoder # {} => r.ctx = r.decoder \/ r.decoder \subseteq m.broken
<1> DEFINE names == Lookups(format, hardware)
           Try(r, i) == OneTry(r, names[i], m)
           r5 == Try(Try(Try(Try(Try([decoder |-> {}, ctx |-> {}, opened |-> 0], 1), 2), 3), 4), 5)
<1>1. Try(r5, 6) = ffmpeg_init(format, hardware, m)
  BY DEF ffmpeg_init
<1> HIDE DEF r5
<1> QED BY <1>1, LastAttempt

\* Whatever machine it runs on and whatever was configured: a program that leaves the
\* codec to its platform offers the host no format that its renderer then refuses, unless
\* FFmpeg has no decoder of its own for it, and what ffmpeg_init found is open or broken.
THEOREM FormatAccepted == Spec => []DefaultFormatAccepted
<1>1. StartupInv => DefaultFormatAccepted
  <2> SUFFICES ASSUME StartupInv, AboutToStream PROVE DefaultFormatAccepted
    BY DEF DefaultFormatAccepted
  <2>1. system \in Systems \ {"NONE"} /\ formats = Offered(config, system)
    BY DEF StartupInv, AboutToStream
  <2>2. ASSUME config.codec = "auto", NEW f \in formats, Generic(f) \in machine.ffmpeg
        PROVE  Accepts(system, f, machine)
    <3>1. f \in {"H264", "H265", "H265_MAIN10"} /\ (f # "H264" => system \in {"AML", "RK", "X11_VAAPI", "X11_VDPAU"})
      BY <2>1, <2>2 DEF Offered, Uses, platform_prefers_codec
    <3>2. CodecOfFormat(f) # "av1"
      BY <3>1 DEF CodecOfFormat
    <3>3. ffmpeg_init(f, system = "X11_VAAPI", machine).decoder # {}
      BY <2>2, <3>2, DecoderFound
    <3> QED BY <2>1, <3>1, <3>3 DEF Accepts, Systems
  <2> QED BY <2>2, DecoderOpen DEF DefaultFormatAccepted
<1>2. StartupInv /\ [Next]_vars => StartupInv'
  BY StartupKept
<1> QED BY <1>1, <1>2, StartupInitially, PTL DEF Spec

\* Whatever the machine and the output: stereo, 5.1 and 7.1 reach the speakers they are
\* meant for, except through OpenMAX beyond stereo.
THEOREM ChannelsReach == Spec => []ChannelsReachSpeakers
<1>1. ASSUME NEW output \in {"sdl", "omx", "pulse", "alsa"}, NEW n \in ChannelCounts, ~(output = "omx" /\ n > 2),
             NEW k \in 1 .. n
      PROVE  Mapped(output, Supplied, n)[k] = Expected(output)[k]
  <2>1. k \in {1, 2} \/ (n \in {6, 8} /\ k \in {3, 4, 5, 6}) \/ (n = 8 /\ k \in {7, 8})
    BY DEF ChannelCounts
  <2>2. CASE output \in {"pulse", "alsa"}
    BY <2>1, <2>2 DEF ChannelCounts, Mapped, AlsaMapping, Expected, Supplied
  <2>3. CASE output \in {"sdl", "omx"}
    BY <1>1, <2>1, <2>3 DEF ChannelCounts, Mapped, OmxMapping, Expected
  <2> QED BY <2>2, <2>3
<1>2. StartupInv => ChannelsReachSpeakers
  BY <1>1 DEF ChannelsReachSpeakers, platform_get_audio
<1>3. StartupInv /\ [Next]_vars => StartupInv'
  BY StartupKept
<1> QED BY <1>2, <1>3, StartupInitially, PTL DEF Spec

-----------------------------------------------------------------------------
(* What config_save writes and what reading it back does.                  *)

Flags == {"sops", "localaudio", "quitappafter", "viewonly"}

\* The value for which a setting is not written.
Omitted(k) ==
  IF k = "width" THEN 1280 ELSE IF k = "height" THEN 720 ELSE IF k = "fps" THEN 60
  ELSE IF k = "bitrate" THEN -1 ELSE IF k = "packetsize" THEN 1024 ELSE IF k = "rotate" THEN 0
  ELSE IF k = "app" THEN "Steam" ELSE k = "sops"

Stored(k, c) == IF k \in Flags THEN IF c[k] THEN "true" ELSE "false" ELSE c[k]

Typed(c) == DOMAIN c = DOMAIN Default /\ \A k \in Flags : c[k] \in BOOLEAN

\* The settings of K that have to be written, and lines that hold these and no others.
Needed(c, K) == {k \in K : c[k] # Omitted(k)}
Holds(s, c, K) ==
  /\ s \in Seq({Line(k, Stored(k, c)) : k \in Needed(c, K)})
  /\ \A k \in Needed(c, K) : \E i \in DOMAIN s : s[i] = Line(k, Stored(k, c))

LEMMA HoldsBoth ==
  ASSUME NEW s, NEW t, NEW c, NEW K, NEW L, Holds(s, c, K), Holds(t, c, L)
  PROVE  Holds(s \o t, c, K \cup L)
<1> DEFINE Lines == {Line(k, Stored(k, c)) : k \in Needed(c, K \cup L)}
<1>1. Needed(c, K \cup L) = Needed(c, K) \cup Needed(c, L)
  BY DEF Needed
<1>2. s \in Seq(Lines) /\ t \in Seq(Lines)
  <2>1. /\ {Line(k, Stored(k, c)) : k \in Needed(c, K)} \subseteq Lines
        /\ {Line(k, Stored(k, c)) : k \in Needed(c, L)} \subseteq Lines
    BY <1>1
  <2>2. /\ s \in Seq({Line(k, Stored(k, c)) : k \in Needed(c, K)})
        /\ t \in Seq({Line(k, Stored(k, c)) : k \in Needed(c, L)})
    BY DEF Holds
  <2> HIDE DEF Lines
  <2>3. \A T, u : u \in Seq(T) /\ T \subseteq Lines => u \in Seq(Lines)
    OBVIOUS
  <2> QED BY <2>1, <2>2, <2>3
<1> HIDE DEF Lines
<1>3. /\ s \o t \in Seq(Lines)
      /\ \A i \in DOMAIN s : i \in DOMAIN (s \o t) /\ (s \o t)[i] = s[i]
      /\ \A i \in DOMAIN t : Len(s) + i \in DOMAIN (s \o t) /\ (s \o t)[Len(s) + i] = t[i]
  BY <1>2
<1>4. ASSUME NEW k \in Needed(c, K \cup L)
      PROVE  \E i \in DOMAIN (s \o t) : (s \o t)[i] = Line(k, Stored(k, c))
  <2>1. CASE k \in Needed(c, K)
    <3>1. PICK i \in DOMAIN s : s[i] = Line(k, Stored(k, c))
      BY <2>1 DEF Holds
    <3> QED BY <1>3, <3>1
  <2>2. CASE k \in Needed(c, L)
    <3>1. PICK i \in DOMAIN t : t[i] = Line(k, Stored(k, c))
      BY <2>2 DEF Holds
    <3> QED BY <1>3, <3>1
  <2> QED BY <1>1, <2>1, <2>2
<1> QED BY <1>3, <1>4 DEF Holds, Lines

LEMMA HoldsOne ==
  ASSUME NEW c, NEW k
  PROVE  /\ c[k] = Omitted(k) => Holds(<<>>, c, {k})
         /\ c[k] # Omitted(k) => Holds(<<Line(k, Stored(k, c))>>, c, {k})
<1>1. CASE c[k] = Omitted(k)
  <2>1. Needed(c, {k}) = {}
    BY <1>1 DEF Needed
  <2> QED BY <1>1, <2>1 DEF Holds
<1>2. CASE c[k] # Omitted(k)
  <2>1. Needed(c, {k}) = {k}
    BY <1>2 DEF Needed
  <2>2. {Line(l, Stored(l, c)) : l \in {k}} = {Line(k, Stored(k, c))}
    OBVIOUS
  <2>3. ASSUME NEW l PROVE <<l>> \in Seq({l}) /\ 1 \in DOMAIN <<l>> /\ <<l>>[1] = l
    OBVIOUS
  <2> QED BY <1>2, <2>1, <2>2, <2>3 DEF Holds
<1> QED BY <1>1, <1>2

LEMMA UnlessHolds ==
  ASSUME NEW c, NEW k, NEW v, k \notin Flags, Omitted(k) = v
  PROVE  Holds(IF c[k] = v THEN <<>> ELSE <<Line(k, c[k])>>, c, {k})
<1>1. Stored(k, c) = c[k]
  BY DEF Stored
<1>2. CASE c[k] = Omitted(k)
  BY <1>2, HoldsOne
<1>3. CASE c[k] # Omitted(k)
  BY <1>1, <1>3, HoldsOne
<1> QED BY <1>2, <1>3

LEMMA SwitchHolds ==
  ASSUME NEW c, NEW k \in Flags, NEW v, Omitted(k) = v
  PROVE  Holds(IF c[k] = v THEN <<>> ELSE <<Line(k, IF c[k] THEN "true" ELSE "false")>>, c, {k})
<1>1. Stored(k, c) = IF c[k] THEN "true" ELSE "false"
  BY DEF Stored
<1>2. CASE c[k] = Omitted(k)
  BY <1>2, HoldsOne
<1>3. CASE c[k] # Omitted(k)
  BY <1>1, <1>3, HoldsOne
<1> QED BY <1>2, <1>3

LEMMA OmittedValues ==
  /\ Omitted("width") = 1280 /\ Omitted("height") = 720 /\ Omitted("fps") = 60
  /\ Omitted("bitrate") = -1 /\ Omitted("packetsize") = 1024 /\ Omitted("rotate") = 0
  /\ Omitted("app") = "Steam" /\ Omitted("sops") = TRUE /\ Omitted("localaudio") = FALSE
  /\ Omitted("quitappafter") = FALSE /\ Omitted("viewonly") = FALSE
  /\ \A k \in {"width", "height", "fps", "bitrate", "packetsize", "rotate", "app"} : k \notin Flags
  /\ \A k \in {"sops", "localaudio", "quitappafter", "viewonly"} : k \in Flags
<1>1. /\ Omitted("width") = 1280 /\ Omitted("height") = 720 /\ Omitted("fps") = 60
      /\ Omitted("bitrate") = -1 /\ Omitted("packetsize") = 1024 /\ Omitted("rotate") = 0
      /\ Omitted("app") = "Steam"
  BY DEF Omitted
<1>2. Omitted("sops") = TRUE
  BY DEF Omitted
<1>3. Omitted("localaudio") = FALSE
  BY DEF Omitted
<1>4. Omitted("quitappafter") = FALSE
  BY DEF Omitted
<1>5. Omitted("viewonly") = FALSE
  BY DEF Omitted
<1> QED BY <1>1, <1>2, <1>3, <1>4, <1>5 DEF Flags

LEMMA WrittenHolds == ASSUME NEW c PROVE Holds(Written(c), c, SavedSettings)
<1> DEFINE Unless(k, v) == IF c[k] = v THEN <<>> ELSE <<Line(k, c[k])>>
           Switch(k, v) == IF c[k] = v THEN <<>> ELSE <<Line(k, IF c[k] THEN "true" ELSE "false")>>
<1>1. Holds(Unless("width", 1280), c, {"width"})
  <2>1. "width" \notin Flags
    BY OmittedValues
  <2>2. \A v : Omitted("width") = v => Holds(Unless("width", v), c, {"width"})
    BY <2>1, UnlessHolds
  <2> HIDE DEF Unless
  <2> QED BY <2>2, OmittedValues
<1>2. Holds(Unless("height", 720), c, {"height"})
  <2>1. "height" \notin Flags
    BY OmittedValues
  <2>2. \A v : Omitted("height") = v => Holds(Unless("height", v), c, {"height"})
    BY <2>1, UnlessHolds
  <2> HIDE DEF Unless
  <2> QED BY <2>2, OmittedValues
<1>3. Holds(Unless("fps", 60), c, {"fps"})
  <2>1. "fps" \notin Flags
    BY OmittedValues
  <2>2. \A v : Omitted("fps") = v => Holds(Unless("fps", v), c, {"fps"})
    BY <2>1, UnlessHolds
  <2> HIDE DEF Unless
  <2> QED BY <2>2, OmittedValues
<1>4. Holds(Unless("bitrate", -1), c, {"bitrate"})
  <2>1. "bitrate" \notin Flags /\ Omitted("bitrate") = -1
    BY OmittedValues
  <2> QED BY <2>1, UnlessHolds
<1>5. Holds(Unless("packetsize", 1024), c, {"packetsize"})
  <2>1. "packetsize" \notin Flags
    BY OmittedValues
  <2>2. \A v : Omitted("packetsize") = v => Holds(Unless("packetsize", v), c, {"packetsize"})
    BY <2>1, UnlessHolds
  <2> HIDE DEF Unless
  <2> QED BY <2>2, OmittedValues
<1>6. Holds(Switch("sops", TRUE), c, {"sops"})
  <2>1. "sops" \in Flags /\ Omitted("sops") = TRUE
    BY OmittedValues
  <2> QED BY <2>1, SwitchHolds
<1>7. Holds(Switch("localaudio", FALSE), c, {"localaudio"})
  <2>1. "localaudio" \in Flags /\ Omitted("localaudio") = FALSE
    BY OmittedValues
  <2> QED BY <2>1, SwitchHolds
<1>8. Holds(Switch("quitappafter", FALSE), c, {"quitappafter"})
  <2>1. "quitappafter" \in Flags /\ Omitted("quitappafter") = FALSE
    BY OmittedValues
  <2> QED BY <2>1, SwitchHolds
<1>9. Holds(Switch("viewonly", FALSE), c, {"viewonly"})
  <2>1. "viewonly" \in Flags /\ Omitted("viewonly") = FALSE
    BY OmittedValues
  <2> QED BY <2>1, SwitchHolds
<1>10. Holds(Unless("rotate", 0), c, {"rotate"})
  <2>1. "rotate" \notin Flags /\ Omitted("rotate") = 0
    BY OmittedValues
  <2> QED BY <2>1, UnlessHolds
<1>11. Holds(Unless("app", "Steam"), c, {"app"})
  <2>1. "app" \notin Flags /\ Omitted("app") = "Steam"
    BY OmittedValues
  <2> QED BY <2>1, UnlessHolds
<1> DEFINE s2 == Unless("width", 1280) \o Unless("height", 720)
           s3 == s2 \o Unless("fps", 60)
           s4 == s3 \o Unless("bitrate", -1)
           s5 == s4 \o Unless("packetsize", 1024)
           s6 == s5 \o Switch("sops", TRUE)
           s7 == s6 \o Switch("localaudio", FALSE)
           s8 == s7 \o Switch("quitappafter", FALSE)
           s9 == s8 \o Switch("viewonly", FALSE)
           s10 == s9 \o Unless("rotate", 0)
           s11 == s10 \o Unless("app", "Steam")
<1>12. Written(c) = s11
  BY DEF Written
<1> DEFINE K2 == {"width"} \cup {"height"}
           K3 == K2 \cup {"fps"}
           K4 == K3 \cup {"bitrate"}
           K5 == K4 \cup {"packetsize"}
           K6 == K5 \cup {"sops"}
           K7 == K6 \cup {"localaudio"}
           K8 == K7 \cup {"quitappafter"}
           K9 == K8 \cup {"viewonly"}
           K10 == K9 \cup {"rotate"}
           K11 == K10 \cup {"app"}
<1>13. K11 = SavedSettings
  BY DEF SavedSettings
<1> HIDE DEF Unless, Switch
<1>14. Holds(s2, c, K2)
  BY <1>1, <1>2, HoldsBoth
<1> HIDE DEF s2, K2
<1>15. Holds(s3, c, K3)
  BY <1>14, <1>3, HoldsBoth
<1> HIDE DEF s3, K3
<1>16. Holds(s4, c, K4)
  BY <1>15, <1>4, HoldsBoth
<1> HIDE DEF s4, K4
<1>17. Holds(s5, c, K5)
  BY <1>16, <1>5, HoldsBoth
<1> HIDE DEF s5, K5
<1>18. Holds(s6, c, K6)
  BY <1>17, <1>6, HoldsBoth
<1> HIDE DEF s6, K6
<1>19. Holds(s7, c, K7)
  BY <1>18, <1>7, HoldsBoth
<1> HIDE DEF s7, K7
<1>20. Holds(s8, c, K8)
  BY <1>19, <1>8, HoldsBoth
<1> HIDE DEF s8, K8
<1>21. Holds(s9, c, K9)
  BY <1>20, <1>9, HoldsBoth
<1> HIDE DEF s9, K9
<1>22. Holds(s10, c, K10)
  BY <1>21, <1>10, HoldsBoth
<1> HIDE DEF s10, K10
<1>23. Holds(s11, c, K11)
  BY <1>22, <1>11, HoldsBoth
<1> HIDE DEF s11, K11
<1> QED BY <1>12, <1>13, <1>23

-----------------------------------------------------------------------------
(* A line and an option change what they name.                             *)

LEMMA SwitchKeys ==
  /\ DOMAIN Size = {"720", "1080", "4k"}
  /\ DOMAIN SwitchesOff = {"nosops", "windowed", "nounsupported", "nomouseemulation"}
  /\ \A o \in DOMAIN SwitchesOff : SwitchesOff[o] \in {"sops", "fullscreen", "unsupported", "mouse_emulation"}
BY DEF Size, SwitchesOff

LEMMA OptionTyped == ASSUME NEW o, NEW c, Typed(c) PROVE Typed(parse_argument(o, c))
<1>1. ASSUME NEW k, NEW v, k \notin Flags PROVE Typed([c EXCEPT ![k] = v])
  BY <1>1 DEF Typed
<1>2. ASSUME NEW k, NEW v \in BOOLEAN PROVE Typed([c EXCEPT ![k] = v])
  BY DEF Typed
<1>3. CASE o.key \in Valued
  <2>1. o.key \notin Flags
    BY <1>3 DEF Valued, Flags
  <2> QED BY <1>1, <1>3, <2>1 DEF parse_argument
<1>4. CASE o.key \notin Valued /\ o.key \in DOMAIN Size
  <2> DEFINE d == [c EXCEPT !.width = Size[o.key][1]]
  <2>1. Typed(d)
    BY <1>1 DEF Flags
  <2>2. parse_argument(o, c) = [d EXCEPT !.height = Size[o.key][2]]
    BY <1>4 DEF parse_argument
  <2> HIDE DEF d
  <2>3. Typed([d EXCEPT !.height = Size[o.key][2]])
    BY <2>1 DEF Typed, Flags
  <2> QED BY <2>2, <2>3
<1>5. CASE o.key \notin Valued \cup DOMAIN Size
  <2>1. CASE o.key \in SwitchesOn
    BY <1>2, <1>5, <2>1 DEF parse_argument
  <2>2. CASE o.key \notin SwitchesOn /\ o.key \in DOMAIN SwitchesOff
    BY <1>2, <1>5, <2>2 DEF parse_argument
  <2>3. CASE o.key \notin SwitchesOn \cup DOMAIN SwitchesOff
    <3>1. \A v : /\ Typed([c EXCEPT !.codec = v]) /\ Typed([c EXCEPT !.config_file = v])
                 /\ Typed([c EXCEPT !.action = v]) /\ Typed([c EXCEPT !.address = v])
      BY <1>1 DEF Flags
    <3> QED BY <1>5, <2>3, <3>1 DEF parse_argument
  <2> QED BY <2>1, <2>2, <2>3
<1> QED BY <1>3, <1>4, <1>5

LEMMA LineTyped == ASSUME NEW l, NEW c, Typed(c) PROVE Typed(ParseLine(l, c))
<1>1. Typed([c EXCEPT !.address = l.value])
  BY DEF Typed, Flags
<1>2. Typed([c EXCEPT !.sops = (l.value = "true")])
  BY DEF Typed, Flags
<1> QED BY <1>1, <1>2, OptionTyped DEF ParseLine

\* A setting that is written comes back when its line is read.
LEMMA LineReturns ==
  ASSUME NEW c, NEW d, Typed(c), NEW k \in SavedSettings, c[k] # Omitted(k)
  PROVE  ParseLine(Line(k, Stored(k, c)), d) = [d EXCEPT ![k] = c[k]]
<1>1. CASE k \in {"width", "height", "fps", "bitrate", "packetsize", "rotate", "app"}
  <2>1. Stored(k, c) = c[k]
    BY <1>1 DEF Stored, Flags
  <2>2. k \in Valued /\ k \notin Switches /\ k # "address" /\ k # "sops"
    BY <1>1, SwitchKeys DEF Valued, Switches, SwitchesOn
  <2> QED BY <2>1, <2>2 DEF ParseLine, parse_argument, Line
<1>2. CASE k = "sops"
  <2>1. c[k] = FALSE
    BY <1>2 DEF Typed, Flags, Omitted
  <2>2. Stored(k, c) = "false"
    BY <1>2, <2>1 DEF Stored, Flags
  <2>3. ("false" = "true") = FALSE
    OBVIOUS
  <2> QED BY <1>2, <2>1, <2>2, <2>3 DEF ParseLine, Line
<1>3. CASE k \in {"localaudio", "quitappafter", "viewonly"}
  <2>1. k \in Flags /\ Omitted(k) = FALSE /\ c[k] \in BOOLEAN
    BY <1>3, OmittedValues DEF Typed
  <2>2. c[k]
    BY <2>1
  <2>3. Stored(k, c) = "true"
    BY <2>1, <2>2 DEF Stored
  <2>4. c[k] = TRUE
    BY <2>1, <2>2
  <2>5. k \in SwitchesOn /\ k \notin Valued /\ k \notin DOMAIN Size /\ k # "address" /\ k # "sops"
    BY <1>3, SwitchKeys DEF Valued, SwitchesOn
  <2> QED BY <2>3, <2>4, <2>5 DEF ParseLine, parse_argument, Line
<1> QED BY <1>1, <1>2, <1>3 DEF SavedSettings

LEMMA WrittenLines ==
  ASSUME NEW c
  PROVE  /\ Len(Written(c)) \in Nat
         /\ \A i \in 1 .. Len(Written(c)) : \E k \in SavedSettings :
              c[k] # Omitted(k) /\ Written(c)[i] = Line(k, Stored(k, c))
         /\ \A k \in SavedSettings : c[k] # Omitted(k) =>
              \E i \in 1 .. Len(Written(c)) : Written(c)[i].key = k
<1> DEFINE w == Written(c)
           Lines == {Line(k, Stored(k, c)) : k \in Needed(c, SavedSettings)}
<1>1. w \in Seq(Lines) /\ \A k \in Needed(c, SavedSettings) : \E i \in DOMAIN w : w[i] = Line(k, Stored(k, c))
  BY WrittenHolds DEF Holds
<1>2. \A l \in Lines : \E k \in SavedSettings : c[k] # Omitted(k) /\ l = Line(k, Stored(k, c))
  BY DEF Needed
<1>3. \A k \in SavedSettings : c[k] # Omitted(k) => \E i \in DOMAIN w : w[i].key = k
  BY <1>1 DEF Needed, Line
<1> HIDE DEF w, Lines
<1>4. Len(w) \in Nat /\ DOMAIN w = 1 .. Len(w) /\ \A i \in 1 .. Len(w) : w[i] \in Lines
  BY <1>1
<1> QED BY <1>2, <1>3, <1>4 DEF w

\* The settings that are read back: those of the first n lines of the file.
ReadUpTo(n) ==
  /\ n \in 0 .. Len(Written(saved.config))
  /\ \A i \in 1 .. n, k \in SavedSettings :
       Written(saved.config)[i].key = k => config[k] = saved.config[k]
  /\ MoonlightConf \notin DOMAIN files =>
       \A k \in SavedSettings : config[k] = saved.config[k] \/ config[k] = Default[k]

LEMMA ReadOn ==
  ASSUME Typed(config), Typed(saved.config), NEW n, ReadUpTo(n), n < Len(Written(saved.config)),
         config' = ParseLine(Written(saved.config)[n + 1], config), UNCHANGED <<saved, files>>
  PROVE  ReadUpTo(n + 1)' /\ Written(saved.config)[n + 1].key # "config"
<1> DEFINE w == Written(saved.config)
<1>1. Len(w) \in Nat /\ n \in Nat /\ n + 1 \in 0 .. Len(w) /\ n + 1 \in 1 .. Len(w)
  BY WrittenLines DEF ReadUpTo
<1>2. PICK k \in SavedSettings : saved.config[k] # Omitted(k) /\ w[n + 1] = Line(k, Stored(k, saved.config))
  BY <1>1, WrittenLines
<1>3. config' = [config EXCEPT ![k] = saved.config[k]]
  BY <1>2, LineReturns
<1>4. w[n + 1].key = k
  BY <1>2 DEF Line
<1>5. k \in DOMAIN config /\ SavedSettings \subseteq DOMAIN config
  BY DEF Typed, SavedSettings, Default
<1>6. config'[k] = saved.config[k] /\ \A j \in SavedSettings : j # k => config'[j] = config[j]
  BY <1>3, <1>5
<1> HIDE DEF w
<1>7. ASSUME NEW i \in 1 .. n + 1, NEW j \in SavedSettings, w[i].key = j
      PROVE  config'[j] = saved.config[j]
  <2>1. CASE j = k
    BY <1>6, <2>1
  <2>2. CASE j # k
    <3>1. i # n + 1
      BY <1>4, <1>7, <2>2
    <3>2. i \in 1 .. n
      BY <1>1, <1>7, <3>1
    <3> QED BY <1>6, <1>7, <2>2, <3>2 DEF ReadUpTo, w
  <2> QED BY <2>1, <2>2
<1>8. MoonlightConf \notin DOMAIN files =>
        \A j \in SavedSettings : config'[j] = saved.config[j] \/ config'[j] = Default[j]
  BY <1>6 DEF ReadUpTo
<1>9. ReadUpTo(n + 1)'
  BY <1>1, <1>7, <1>8 DEF ReadUpTo, w
<1>10. k # "config"
  BY DEF SavedSettings
<1> QED BY <1>4, <1>9, <1>10 DEF w

LEMMA DefaultsOmitted == \A k \in SavedSettings : k = "packetsize" \/ Omitted(k) = Default[k]
<1>1. /\ Omitted("width") = Default["width"] /\ Omitted("height") = Default["height"]
      /\ Omitted("fps") = Default["fps"] /\ Omitted("bitrate") = Default["bitrate"]
  BY DEF Omitted, Default
<1>2. Omitted("rotate") = Default["rotate"] /\ Omitted("app") = Default["app"]
  BY DEF Omitted, Default
<1>3. /\ Default["sops"] = TRUE /\ Default["localaudio"] = FALSE
      /\ Default["quitappafter"] = FALSE /\ Default["viewonly"] = FALSE
  BY DEF Default
<1>4. Omitted("sops") = TRUE /\ Omitted("localaudio") = FALSE
  BY OmittedValues
<1>5. Omitted("quitappafter") = FALSE /\ Omitted("viewonly") = FALSE
  BY OmittedValues
<1>6. Omitted("sops") = Default["sops"] /\ Omitted("localaudio") = Default["localaudio"]
  BY ONLY <1>3, <1>4
<1>7. Omitted("quitappafter") = Default["quitappafter"] /\ Omitted("viewonly") = Default["viewonly"]
  BY ONLY <1>3, <1>5
<1> QED BY <1>1, <1>2, <1>6, <1>7 DEF SavedSettings

LEMMA ReadAll ==
  ASSUME ReadUpTo(Len(Written(saved.config))), NEW k \in SavedSettings
  PROVE  \/ config[k] = saved.config[k]
         \/ k = "packetsize" /\ saved.config[k] = 1024
         \/ MoonlightConf \in DOMAIN files /\ saved.config[k] = Default[k]
<1>1. CASE saved.config[k] # Omitted(k)
  <2>1. PICK i \in 1 .. Len(Written(saved.config)) : Written(saved.config)[i].key = k
    BY <1>1, WrittenLines
  <2> QED BY <2>1 DEF ReadUpTo
<1>2. CASE saved.config[k] = Omitted(k) /\ k = "packetsize"
  BY <1>2, OmittedValues
<1>3. CASE saved.config[k] = Omitted(k) /\ k # "packetsize"
  <2>1. saved.config[k] = Default[k]
    BY <1>3, DefaultsOmitted
  <2> QED BY <2>1 DEF ReadUpTo
<1> QED BY <1>1, <1>2, <1>3

\* At the end the bitrate that was left open is worked out.
LEMMA BitrateWorkedOut ==
  ASSUME NEW c, NEW d, NEW k \in SavedSettings, NEW v, Typed(c), c[k] = v,
         d = [c EXCEPT !.bitrate = IF @ = -1 THEN DefaultBitrate(c) ELSE @]
  PROVE  d[k] = IF k = "bitrate" /\ v = -1 THEN DefaultBitrate(d) ELSE v
<1>1. {"width", "height", "fps", "bitrate"} \subseteq DOMAIN c /\ k \in DOMAIN c
  BY DEF Typed, Default, SavedSettings
<1>2. d.width = c.width /\ d.height = c.height /\ d.fps = c.fps
  BY <1>1
<1>3. DefaultBitrate(d) = DefaultBitrate(c)
  BY <1>2 DEF DefaultBitrate
<1> HIDE DEF DefaultBitrate
<1> QED BY <1>1, <1>3

-----------------------------------------------------------------------------
(* From -save to the start that reads the file back: what was written      *)
(* stays, and the settings come back line by line.                         *)

Loading == saved.file # Unset /\ args = <<Line("action", saved.file)>>
Opened == [file : DOMAIN files, line : Nat]

Returned ==
  \A k \in SavedSettings :
    \/ SameAsSaved(k)
    \/ k = "packetsize" /\ saved.config[k] = 1024
    \/ MoonlightConf \in DOMAIN files /\ saved.config[k] = Default[k]

SettingsTyped ==
  /\ SettingsTypeOK /\ Typed(config) /\ Len(args) \in Nat
  /\ open \in Seq(Opened)
  /\ stage \in {"save", "write"} => open = <<>> /\ config.config_file # Unset

SavedThere ==
  /\ saved.file # Unset =>
       /\ saved.file \in DOMAIN files
       /\ files[saved.file] = Written(saved.config)
       /\ Typed(saved.config)
  /\ stage = "write" => config.config_file \in DOMAIN files /\ config.config_file # saved.file

LoadedSoFar ==
  Loading =>
    /\ stage = "defaults" /\ MoonlightConf \notin DOMAIN files =>
         open = <<>> /\ \A k \in SavedSettings : config[k] = Default[k]
    /\ stage = "options" =>
         /\ arg = 1
         /\ \/ open = <<>> /\ ReadUpTo(Len(Written(saved.config)))
            \/ \E n \in Nat : open = <<[file |-> saved.file, line |-> n]>> /\ ReadUpTo(n)
    /\ stage \in {"host", "ready"} /\ HostFile \notin DOMAIN files => open = <<>> /\ Returned

SettingsInv == SettingsTyped /\ SavedThere /\ LoadedSoFar

LEMMA DefaultTyped == Typed(Default)
BY DEF Typed, Default, Flags

LEMMA SettingsInitially == Init => SettingsInv
<1> SUFFICES ASSUME SettingsInit PROVE SettingsInv
  BY DEF Init, StartupInit
<1>1. <<>> \in Seq(Opened) /\ Len(<<>>) = 0
  OBVIOUS
<1> QED BY <1>1, DefaultTyped, SettingsAssumption
     DEF SettingsInit, SettingsInv, SettingsTyped, SettingsTypeOK, SavedThere, LoadedSoFar, Loading

LEMMA BeginParseKeeps == ASSUME SettingsInv, NEW a \in CommandLines, BeginParse(a) PROVE SettingsInv'
<1>1. <<>> \in Seq(Opened') /\ Len(<<>>) = 0
  OBVIOUS
<1>2. MoonlightConf \in DOMAIN files' =>
        LET o == [file |-> MoonlightConf, line |-> 0] IN <<o>> \in Seq(Opened') /\ Len(<<o>>) = 1
  BY DEF Opened
<1>3. open' \in Seq(Opened') /\ handles' \in 0 .. MaxOpen /\ Len(open') <= handles'
  <2>1. CASE MoonlightConf \in DOMAIN files
    <3>1. files' = files /\ handles' = 1 /\ open' = <<[file |-> MoonlightConf, line |-> 0]>>
      BY <2>1 DEF BeginParse
    <3>2. open' \in Seq(Opened') /\ Len(open') = 1
      BY <1>2, <2>1, <3>1
    <3> QED BY <3>1, <3>2, SettingsAssumption
  <2>2. CASE MoonlightConf \notin DOMAIN files
    <3>1. handles' = 0 /\ open' = <<>>
      BY <2>2 DEF BeginParse
    <3> QED BY <1>1, <3>1, SettingsAssumption
  <2> QED BY <2>1, <2>2
<1>4. SettingsTyped'
  BY <1>3, DefaultTyped, SettingsAssumption DEF BeginParse, SettingsInv, SettingsTyped, SettingsTypeOK
<1>5. SavedThere' /\ LoadedSoFar'
  BY DEF BeginParse, SettingsInv, SavedThere, LoadedSoFar
<1> QED BY <1>4, <1>5 DEF SettingsInv

LEMMA HostReadKeeps == ASSUME SettingsInv, HostRead PROVE SettingsInv'
<1>1. SettingsTyped'
  BY DEF HostRead, SettingsInv, SettingsTyped, SettingsTypeOK, Opened
<1>2. SavedThere' /\ LoadedSoFar'
  BY DEF HostRead, SettingsInv, SavedThere, LoadedSoFar, Loading, Returned, SameAsSaved
<1> QED BY <1>1, <1>2 DEF SettingsInv

LEMMA EndsKeep == ASSUME SettingsInv, KillParse \/ EndParse \/ ChoosePlatform \/ Connect PROVE SettingsInv'
<1>1. <<>> \in Seq(Opened') /\ Len(<<>>) = 0
  OBVIOUS
<1>2. CASE KillParse \/ ChoosePlatform
  <2>1. SettingsTyped'
    BY <1>2 DEF KillParse, Exit, ChoosePlatform, SettingsInv, SettingsTyped, SettingsTypeOK, Opened
  <2>2. SavedThere' /\ LoadedSoFar'
    BY <1>2 DEF KillParse, Exit, ChoosePlatform, SettingsInv, SavedThere, LoadedSoFar
  <2> QED BY <2>1, <2>2 DEF SettingsInv
<1>3. CASE EndParse
  <2>1. SettingsTyped'
    BY <1>1, <1>3, DefaultTyped, SettingsAssumption DEF EndParse, Over, SettingsInv, SettingsTyped, SettingsTypeOK
  <2>2. SavedThere' /\ LoadedSoFar'
    BY <1>3 DEF EndParse, Over, SettingsInv, SavedThere, LoadedSoFar
  <2> QED BY <2>1, <2>2 DEF SettingsInv
<1>4. CASE Connect
  <2>1. SettingsTyped'
    BY <1>1, <1>4, DefaultTyped, SettingsAssumption DEF Connect, AboutToStream, SettingsTyped, SettingsTypeOK
  <2>2. SavedThere' /\ LoadedSoFar'
    BY <1>4 DEF Connect, AboutToStream, SavedThere, LoadedSoFar, Loading
  <2> QED BY <2>1, <2>2 DEF SettingsInv
<1> QED BY <1>2, <1>3, <1>4

LEMMA DefaultsReadKeeps == ASSUME SettingsInv, DefaultsRead PROVE SettingsInv'
<1> DEFINE o == [file |-> args[1].value, line |-> 0]
<1>1. UNCHANGED <<files, args, saved, programs>> /\ stage = "defaults" /\ open = <<>>
  BY DEF DefaultsRead
<1>2. SavedThere'
  BY <1>1 DEF DefaultsRead, SettingsInv, SavedThere
<1>3. CASE ~(Len(args) = 1 /\ args[1].value \in DOMAIN files)
  <2>1. stage' = "options" /\ UNCHANGED <<config, arg, open, handles>>
    BY <1>3 DEF DefaultsRead
  <2>2. SettingsTyped'
    BY <1>1, <2>1 DEF SettingsInv, SettingsTyped, SettingsTypeOK, Opened
  <2>3. ~Loading
    BY <1>3 DEF Loading, SettingsInv, SavedThere, Line
  <2>4. LoadedSoFar'
    BY <1>1, <2>3 DEF LoadedSoFar, Loading
  <2> QED BY <1>2, <2>2, <2>4 DEF SettingsInv
<1>4. CASE Len(args) = 1 /\ args[1].value \in DOMAIN files
  <2>1. config' = [config EXCEPT !.action = "stream"] /\ arg' = 1
    BY <1>4 DEF DefaultsRead
  <2>2. Typed(config)' /\ \A k \in SavedSettings : config'[k] = config[k]
    BY <2>1 DEF SettingsInv, SettingsTyped, Typed, Flags, Default, SavedSettings
  <2>3. \/ /\ stage' = "options" /\ open' = <<o>> /\ handles < MaxOpen /\ handles' = handles + 1
        \/ stage' = "exited" /\ UNCHANGED <<open, handles>>
    BY <1>4 DEF DefaultsRead
  <2>4. <<o>> \in Seq(Opened') /\ Len(<<o>>) = 1
    BY <1>1, <1>4 DEF Opened
  <2>5. handles \in 0 .. MaxOpen /\ Len(open) <= handles /\ open \in Seq(Opened') /\ Len(open) = 0
    BY <1>1 DEF SettingsInv, SettingsTyped, SettingsTypeOK, Opened
  <2>6. /\ open' \in Seq(Opened') /\ handles' \in 0 .. MaxOpen /\ Len(open') <= handles'
        /\ stage' \in {"options", "exited"}
    <3> HIDE DEF o
    <3>1. CASE stage' = "options"
      <4>1. open' = <<o>> /\ handles < MaxOpen /\ handles' = handles + 1
        BY <2>3, <3>1
      <4> QED BY <2>4, <2>5, <3>1, <4>1, SettingsAssumption
    <3>2. CASE stage' # "options"
      <4>1. stage' = "exited" /\ open' = open /\ handles' = handles
        BY <2>3, <3>2
      <4> QED BY <2>5, <4>1, SettingsAssumption
    <3> QED BY <3>1, <3>2
  <2>7. SettingsTyped'
    BY <1>1, <1>4, <2>1, <2>2, <2>6 DEF SettingsInv, SettingsTyped, SettingsTypeOK, Typed
  <2>8. ASSUME Loading, stage' = "options"
        PROVE  open' = <<[file |-> saved.file, line |-> 0]>> /\ ReadUpTo(0)'
    <3>1. open' = <<[file |-> saved.file, line |-> 0]>>
      BY <2>3, <2>8 DEF Loading, Line
    <3>2. 0 \in 0 .. Len(Written(saved.config)) /\ \A i : i \notin 1 .. 0
      BY WrittenLines
    <3>3. MoonlightConf \notin DOMAIN files => \A k \in SavedSettings : config'[k] = Default[k]
      BY <1>1, <2>2, <2>8 DEF SettingsInv, LoadedSoFar
    <3> QED BY <1>1, <3>1, <3>2, <3>3 DEF ReadUpTo
  <2>9. LoadedSoFar'
    BY <1>1, <2>1, <2>3, <2>8 DEF LoadedSoFar, Loading
  <2> QED BY <1>2, <2>7, <2>9 DEF SettingsInv
<1> QED BY <1>3, <1>4

LEMMA ReadOptionKeeps == ASSUME SettingsInv, ReadOption PROVE SettingsInv'
<1> DEFINE o == args[arg + 1]
<1>1. /\ UNCHANGED <<files, args, saved, programs>> /\ stage = "options" /\ open = <<>>
      /\ arg < Len(args) /\ arg' = arg + 1
  BY DEF ReadOption
<1>2. stage' \in {"options", "exited"}
  BY <1>1 DEF ReadOption, OpenFile
<1>3. ~Loading
  <2>1. Loading => Len(args) = 1 /\ arg = 1
    BY <1>1 DEF Loading, SettingsInv, LoadedSoFar
  <2>2. arg < Len(args)
    BY <1>1
  <2>3. Len(args) = 1 /\ arg = 1 => ~(arg < Len(args))
    OBVIOUS
  <2> QED BY ONLY <2>1, <2>2, <2>3
<1>4. LoadedSoFar'
  BY <1>1, <1>3 DEF LoadedSoFar, Loading
<1>5. SavedThere'
  BY <1>1, <1>2 DEF SettingsInv, SavedThere
<1>6. config' = config \/ config' = parse_argument(o, config)
  BY DEF ReadOption
<1>7. Typed(config')
  BY <1>6, OptionTyped DEF SettingsInv, SettingsTyped
<1>8. \/ /\ handles < MaxOpen /\ handles' = handles + 1 /\ o.value \in DOMAIN files
         /\ open' = Append(<<>>, [file |-> o.value, line |-> 0])
      \/ open' = <<>> /\ handles' = handles
  BY <1>1 DEF ReadOption, OpenFile
<1>9. /\ <<>> \in Seq(Opened') /\ Len(<<>>) = 0
      /\ \A e \in Opened' : Append(<<>>, e) \in Seq(Opened') /\ Len(Append(<<>>, e)) = 1
  OBVIOUS
<1>10. o.value \in DOMAIN files => [file |-> o.value, line |-> 0] \in Opened'
  BY <1>1 DEF Opened
<1>11. handles \in 0 .. MaxOpen
  BY DEF SettingsInv, SettingsTyped, SettingsTypeOK
<1>12. open' \in Seq(Opened') /\ handles' \in 0 .. MaxOpen /\ Len(open') <= handles'
  <2> DEFINE e == [file |-> o.value, line |-> 0]
  <2>1. CASE o.value \in DOMAIN files /\ open' = Append(<<>>, e) /\ handles < MaxOpen /\ handles' = handles + 1
    <3>1. e \in Opened'
      BY <1>10, <2>1
    <3> HIDE DEF e
    <3>2. open' \in Seq(Opened') /\ Len(open') = 1
      BY ONLY <1>9, <2>1, <3>1
    <3> QED BY <1>11, <2>1, <3>2, SettingsAssumption
  <2>2. CASE open' = <<>> /\ handles' = handles
    BY <1>9, <1>11, <2>2, SettingsAssumption
  <2> QED BY <1>8, <2>1, <2>2
<1>13. arg' \in 0 .. Len(args)
  BY <1>1 DEF SettingsInv, SettingsTyped, SettingsTypeOK
<1>14. SettingsTyped'
  BY <1>1, <1>2, <1>7, <1>12, <1>13 DEF SettingsInv, SettingsTyped, SettingsTypeOK, Typed
<1> QED BY <1>4, <1>5, <1>14 DEF SettingsInv

LEMMA FinishTyped ==
  ASSUME Finish, Typed(config), open = <<>>, handles \in 0 .. MaxOpen, DOMAIN files' = DOMAIN files
  PROVE  /\ Typed(config)' /\ stage' = "host"
         /\ open' \in Seq(Opened') /\ handles' \in 0 .. MaxOpen /\ Len(open') <= handles'
         /\ HostFile \notin DOMAIN files' => open' = <<>>
<1>1. Typed(config)'
  BY DEF Finish, Typed, Flags
<1>2. HostFile \in DOMAIN files =>
        LET o == [file |-> HostFile, line |-> 0] IN <<o>> \in Seq(Opened') /\ Len(<<o>>) = 1
  BY DEF Opened
<1>3. <<>> \in Seq(Opened') /\ Len(<<>>) = 0
  OBVIOUS
<1>4. CASE HostFile \in DOMAIN files /\ handles < MaxOpen
  <2>1. open' = <<[file |-> HostFile, line |-> 0]>> /\ handles' = handles + 1 /\ stage' = "host"
    BY <1>4 DEF Finish
  <2>2. open' \in Seq(Opened') /\ Len(open') = 1
    BY <1>2, <1>4, <2>1
  <2> QED BY <1>1, <1>4, <2>1, <2>2, SettingsAssumption
<1>5. CASE ~(HostFile \in DOMAIN files /\ handles < MaxOpen)
  <2>1. open' = <<>> /\ handles' = handles /\ stage' = "host"
    BY <1>5 DEF Finish
  <2> QED BY <1>1, <1>3, <2>1, SettingsAssumption
<1> QED BY <1>4, <1>5

LEMMA FinishReturns ==
  ASSUME Finish, Typed(config), DOMAIN files' = DOMAIN files,
         \A k \in SavedSettings :
           \/ config[k] = saved'.config[k]
           \/ k = "packetsize" /\ saved'.config[k] = 1024
           \/ MoonlightConf \in DOMAIN files /\ saved'.config[k] = Default[k]
  PROVE  Returned'
<1> SUFFICES ASSUME NEW k \in SavedSettings, config[k] = saved'.config[k]
             PROVE  SameAsSaved(k)'
  BY DEF Returned
<1>1. config' = [config EXCEPT !.bitrate = IF @ = -1 THEN DefaultBitrate(config) ELSE @]
  BY DEF Finish
<1>2. config'[k] = IF k = "bitrate" /\ saved'.config[k] = -1 THEN DefaultBitrate(config') ELSE saved'.config[k]
  BY <1>1, BitrateWorkedOut
<1> QED BY <1>2 DEF SameAsSaved, DefaultBitrate

LEMMA OptionsReadKeeps == ASSUME SettingsInv, OptionsRead PROVE SettingsInv'
<1>1. UNCHANGED <<files, args, arg, saved, programs>> /\ stage = "options" /\ open = <<>>
  BY DEF OptionsRead
<1>2. CASE config.config_file # Unset
  <2>1. stage' = "save" /\ UNCHANGED <<config, open, handles>>
    BY <1>2 DEF OptionsRead
  <2>2. SettingsTyped'
    BY <1>1, <1>2, <2>1 DEF SettingsInv, SettingsTyped, SettingsTypeOK, Opened
  <2>3. SavedThere' /\ LoadedSoFar'
    BY <1>1, <2>1 DEF SettingsInv, SavedThere, LoadedSoFar
  <2> QED BY <2>2, <2>3 DEF SettingsInv
<1>3. CASE config.config_file = Unset
  <2>1. Finish
    BY <1>3 DEF OptionsRead
  <2>2. /\ Typed(config)' /\ stage' = "host"
        /\ open' \in Seq(Opened') /\ handles' \in 0 .. MaxOpen /\ Len(open') <= handles'
        /\ HostFile \notin DOMAIN files' => open' = <<>>
    BY <1>1, <2>1, FinishTyped DEF SettingsInv, SettingsTyped, SettingsTypeOK
  <2>3. SettingsTyped'
    BY <1>1, <2>2 DEF SettingsInv, SettingsTyped, SettingsTypeOK, Typed
  <2>4. SavedThere'
    BY <1>1, <2>2 DEF SettingsInv, SavedThere
  <2>5. ASSUME Loading PROVE Returned'
    <3>1. ReadUpTo(Len(Written(saved.config)))
      <4>1. ASSUME NEW n PROVE <<[file |-> saved.file, line |-> n]>> # <<>>
        OBVIOUS
      <4> QED BY <1>1, <2>5, <4>1 DEF SettingsInv, LoadedSoFar
    <3> QED BY <1>1, <2>1, <3>1, ReadAll, FinishReturns DEF SettingsInv, SettingsTyped
  <2>6. LoadedSoFar'
    BY <1>1, <2>2, <2>5 DEF LoadedSoFar, Loading
  <2> QED BY <2>3, <2>4, <2>6 DEF SettingsInv
<1> QED BY <1>2, <1>3

LEMMA SaveOpenKeeps == ASSUME SettingsInv, SaveOpen PROVE SettingsInv'
<1>1. UNCHANGED <<config, args, arg, open, handles, programs>> /\ stage = "save" /\ stage' \in {"write", "exited"}
  BY DEF SaveOpen
<1>2. open = <<>>
  BY <1>1 DEF SettingsInv, SettingsTyped
<1>3. <<>> \in Seq(Opened')
  OBVIOUS
<1>4. SettingsTyped'
  BY <1>1, <1>2, <1>3 DEF SettingsInv, SettingsTyped, SettingsTypeOK
<1>5. LoadedSoFar'
  BY <1>1 DEF LoadedSoFar
<1>6. SavedThere'
  <2>1. CASE stage' = "exited"
    <3>1. UNCHANGED <<files, saved>>
      BY <2>1 DEF SaveOpen
    <3> QED BY <2>1, <3>1 DEF SettingsInv, SavedThere
  <2>2. CASE stage' = "write"
    <3>1. /\ files' = [f \in DOMAIN files \cup {config.config_file} |->
                        IF f = config.config_file THEN <<>> ELSE files[f]]
          /\ saved' = IF saved.file = config.config_file THEN [saved EXCEPT !.file = Unset] ELSE saved
      BY <2>2 DEF SaveOpen
    <3>2. config.config_file # Unset /\ config' = config
      BY <1>1 DEF SettingsInv, SettingsTyped
    <3>3. CASE saved.file = config.config_file
      BY <2>2, <3>1, <3>2, <3>3 DEF SavedThere
    <3>4. CASE saved.file # config.config_file
      BY <2>2, <3>1, <3>2, <3>4 DEF SettingsInv, SavedThere
    <3> QED BY <3>3, <3>4
  <2> QED BY <1>1, <2>1, <2>2
<1> QED BY <1>4, <1>5, <1>6 DEF SettingsInv

LEMMA SaveCloseKeeps == ASSUME SettingsInv, SaveClose PROVE SettingsInv'
<1>1. /\ UNCHANGED <<args, arg, programs>> /\ stage = "write" /\ Finish
      /\ files' = [files EXCEPT ![config.config_file] = Written(config)]
      /\ saved' = [file |-> config.config_file, config |-> config]
  BY DEF SaveClose
<1>2. /\ open = <<>> /\ Typed(config) /\ config.config_file \in DOMAIN files /\ handles \in 0 .. MaxOpen
      /\ DOMAIN files' = DOMAIN files
  BY <1>1 DEF SettingsInv, SettingsTyped, SettingsTypeOK, SavedThere
<1>3. /\ Typed(config)' /\ stage' = "host"
      /\ open' \in Seq(Opened') /\ handles' \in 0 .. MaxOpen /\ Len(open') <= handles'
      /\ HostFile \notin DOMAIN files' => open' = <<>>
  BY <1>1, <1>2, FinishTyped
<1>4. SettingsTyped'
  BY <1>1, <1>3 DEF SettingsInv, SettingsTyped, SettingsTypeOK, Typed
<1>5. SavedThere'
  <2>1. saved'.file = config.config_file /\ saved'.config = config
    BY <1>1
  <2>2. files'[config.config_file] = Written(config)
    BY <1>1, <1>2
  <2> QED BY <1>2, <1>3, <2>1, <2>2 DEF SavedThere
<1>6. Returned'
  <2>1. saved'.config = config
    BY <1>1
  <2> QED BY <1>1, <1>2, <2>1, FinishReturns
<1>7. LoadedSoFar'
  BY <1>3, <1>6 DEF LoadedSoFar
<1> QED BY <1>4, <1>5, <1>7 DEF SettingsInv

\* What happens to the files that are open.
LEMMA OpenTyped ==
  ASSUME open \in Seq(Opened), open # <<>>
  PROVE  /\ Len(open) \in Nat \ {0} /\ Top \in Opened
         /\ SubSeq(open, 1, Len(open) - 1) \in Seq(Opened)
         /\ Len(SubSeq(open, 1, Len(open) - 1)) = Len(open) - 1
         /\ LET next == [open EXCEPT ![Len(open)].line = @ + 1] IN
            /\ next \in Seq(Opened) /\ Len(next) = Len(open)
            /\ \A e \in Opened : Append(next, e) \in Seq(Opened) /\ Len(Append(next, e)) = Len(open) + 1
<1>1. Len(open) \in Nat \ {0} /\ Top \in Opened
  BY DEF Top
<1>2. /\ SubSeq(open, 1, Len(open) - 1) \in Seq(Opened)
      /\ Len(SubSeq(open, 1, Len(open) - 1)) = Len(open) - 1
  <2> DEFINE m == Len(open) - 1
  <2>1. m \in Nat /\ 1 \in Int /\ m \in Int /\ \A i \in 1 .. m : open[i] \in Opened
    BY <1>1
  <2> HIDE DEF m
  <2>2. (IF 1 <= m THEN m - 1 + 1 ELSE 0) = m
    <3>1. \A n \in Nat : (IF 1 <= n THEN n - 1 + 1 ELSE 0) = n
      OBVIOUS
    <3> QED BY <2>1, <3>1
  <2>3. SubSeq(open, 1, m) \in Seq(Opened) /\ Len(SubSeq(open, 1, m)) = IF 1 <= m THEN m - 1 + 1 ELSE 0
    BY ONLY <2>1, SubSeqProperties
  <2>4. SubSeq(open, 1, m) \in Seq(Opened) /\ Len(SubSeq(open, 1, m)) = m
    BY <2>2, <2>3
  <2> QED BY <2>4 DEF m
<1> DEFINE t == [Top EXCEPT !.line = @ + 1]
           next == [open EXCEPT ![Len(open)].line = @ + 1]
<1>3. t \in Opened
  BY <1>1 DEF Opened
<1>4. next = [open EXCEPT ![Len(open)] = t]
  BY DEF Top
<1> HIDE DEF t, next
<1>5. next \in Seq(Opened) /\ Len(next) = Len(open)
  BY <1>1, <1>3, <1>4
<1>6. \A e \in Opened : Append(next, e) \in Seq(Opened) /\ Len(Append(next, e)) = Len(open) + 1
  BY <1>5
<1> QED BY <1>1, <1>2, <1>5, <1>6 DEF next

LEMMA ReadLineTyped == ASSUME SettingsInv, ReadLine PROVE SettingsTyped'
<1> DEFINE l == files[Top.file][Top.line + 1]
           next == [open EXCEPT ![Len(open)].line = @ + 1]
           e == [file |-> l.value, line |-> 0]
<1>1. UNCHANGED <<files, args, arg, saved, programs>> /\ open # <<>> /\ stage \in {"defaults", "options", "host"}
  BY DEF ReadLine, Reading
<1>2. stage' = stage \/ stage' = "exited"
  BY DEF ReadLine
<1>3. config' = config \/ config' = ParseLine(l, config)
  BY DEF ReadLine
<1>4. Typed(config')
  BY <1>3, LineTyped DEF SettingsInv, SettingsTyped
<1>5. open \in Seq(Opened) /\ handles \in 0 .. MaxOpen /\ Len(open) <= handles
  BY DEF SettingsInv, SettingsTyped, SettingsTypeOK
<1>6. \/ open' = SubSeq(open, 1, Len(open) - 1) /\ handles' = handles
      \/ open' = next /\ handles' = handles
      \/ open' = open /\ handles' = handles
      \/ /\ l.value \in DOMAIN files /\ open' = Append(next, e)
         /\ handles < MaxOpen /\ handles' = handles + 1
  BY DEF ReadLine
<1>7. l.value \in DOMAIN files => e \in Opened
  BY DEF Opened
<1>8. Opened' = Opened
  BY <1>1 DEF Opened
<1>9. /\ Len(open) \in Nat \ {0}
      /\ SubSeq(open, 1, Len(open) - 1) \in Seq(Opened)
      /\ Len(SubSeq(open, 1, Len(open) - 1)) = Len(open) - 1
      /\ next \in Seq(Opened) /\ Len(next) = Len(open)
      /\ \A x \in Opened : Append(next, x) \in Seq(Opened) /\ Len(Append(next, x)) = Len(open) + 1
  BY <1>1, <1>5, OpenTyped
<1> HIDE DEF l, next, e
<1>10. open' \in Seq(Opened) /\ handles' \in 0 .. MaxOpen /\ Len(open') <= handles'
  <2>1. CASE open' = SubSeq(open, 1, Len(open) - 1) /\ handles' = handles
    BY ONLY <1>5, <1>9, <2>1, SettingsAssumption
  <2>2. CASE open' = next /\ handles' = handles
    BY ONLY <1>5, <1>9, <2>2, SettingsAssumption
  <2>3. CASE open' = open /\ handles' = handles
    BY ONLY <1>5, <2>3, SettingsAssumption
  <2>4. CASE l.value \in DOMAIN files /\ open' = Append(next, e) /\ handles < MaxOpen /\ handles' = handles + 1
    <3>1. open' \in Seq(Opened) /\ Len(open') = Len(open) + 1
      BY <1>7, <1>9, <2>4
    <3> QED BY ONLY <1>5, <1>9, <2>4, <3>1, SettingsAssumption
  <2> QED BY <1>6, <2>1, <2>2, <2>3, <2>4
<1> QED BY <1>1, <1>2, <1>4, <1>8, <1>10 DEF SettingsInv, SettingsTyped, SettingsTypeOK, Typed

\* The file that was saved is read to its end, and names no other.
LEMMA ReadLineLoads ==
  ASSUME SettingsInv, ReadLine, Loading, stage = "options"
  PROVE  \/ open' = <<>> /\ ReadUpTo(Len(Written(saved.config)))'
         \/ \E n \in Nat : open' = <<[file |-> saved.file, line |-> n]>> /\ ReadUpTo(n)'
<1> DEFINE w == Written(saved.config)
           o(n) == [file |-> saved.file, line |-> n]
<1>1. UNCHANGED <<files, saved>> /\ open # <<>>
  BY DEF ReadLine, Reading
<1>2. Typed(config) /\ Typed(saved.config) /\ files[saved.file] = w
  BY DEF SettingsInv, SettingsTyped, SavedThere, Loading
<1>3. PICK n \in Nat : open = <<o(n)>> /\ ReadUpTo(n)
  BY <1>1 DEF SettingsInv, LoadedSoFar
<1>4. /\ Len(open) = 1 /\ Top = o(n) /\ SubSeq(open, 1, Len(open) - 1) = <<>>
      /\ [open EXCEPT ![Len(open)].line = @ + 1] = <<o(n + 1)>>
  BY <1>3 DEF Top
<1>5. files[Top.file] = w /\ Top.line = n
  BY <1>2, <1>4
<1>6. CASE n = Len(w)
  <2>1. open' = <<>> /\ config' = config
    BY <1>4, <1>5, <1>6 DEF ReadLine
  <2> QED BY <1>1, <1>3, <1>6, <2>1 DEF ReadUpTo
<1>7. CASE n # Len(w)
  <2>1. n < Len(w)
    BY <1>3, <1>7, WrittenLines DEF ReadUpTo
  <2>2. config' = ParseLine(w[n + 1], config) => ReadUpTo(n + 1)' /\ w[n + 1].key # "config"
    BY <1>1, <1>2, <1>3, <2>1, ReadOn
  <2>3. w[n + 1].key # "config"
    <3>1. n + 1 \in 1 .. Len(w)
      BY <1>3, <2>1, WrittenLines
    <3>2. PICK k \in SavedSettings : w[n + 1] = Line(k, Stored(k, saved.config))
      BY <3>1, WrittenLines
    <3> QED BY <3>2 DEF Line, SavedSettings
  <2>4. config' = ParseLine(w[n + 1], config) /\ open' = <<o(n + 1)>>
    BY <1>4, <1>5, <1>7, <2>3 DEF ReadLine
  <2>5. n + 1 \in Nat
    BY <1>3
  <2> QED BY <1>1, <2>2, <2>4, <2>5
<1> QED BY <1>6, <1>7

LEMMA ReadLineKeeps == ASSUME SettingsInv, ReadLine PROVE SettingsInv'
<1>1. /\ UNCHANGED <<files, args, arg, saved, programs>> /\ open # <<>>
      /\ stage \in {"defaults", "options", "host"} /\ (stage' = stage \/ stage' = "exited")
  BY DEF ReadLine, Reading
<1>2. SavedThere'
  BY <1>1 DEF SettingsInv, SavedThere
<1>3. LoadedSoFar'
  <2> SUFFICES ASSUME Loading, stage' = stage PROVE LoadedSoFar'
    BY <1>1 DEF LoadedSoFar, Loading
  <2>1. CASE stage = "options"
    BY <1>1, <2>1, ReadLineLoads DEF SettingsInv, LoadedSoFar
  <2>2. CASE stage # "options"
    BY <1>1, <2>2 DEF SettingsInv, LoadedSoFar
  <2> QED BY <2>1, <2>2
<1> QED BY <1>2, <1>3, ReadLineTyped DEF SettingsInv

LEMMA SettingsKept == ASSUME SettingsInv, [Next]_vars PROVE SettingsInv'
<1>1. CASE Start
  BY <1>1, BeginParseKeeps, ReadLineKeeps, DefaultsReadKeeps, ReadOptionKeeps, OptionsReadKeeps, SaveOpenKeeps,
     SaveCloseKeeps, HostReadKeeps, EndsKeep DEF Start, StartupNext, Parse
<1>2. CASE Connect
  BY <1>2, EndsKeep
<1>3. CASE UNCHANGED startVars
  <2>1. UNCHANGED settingsVars
    BY <1>3 DEF startVars
  <2>2. SettingsTyped'
    BY <2>1 DEF settingsVars, SettingsInv, SettingsTyped, SettingsTypeOK, Opened
  <2>3. SavedThere' /\ LoadedSoFar'
    BY <2>1 DEF settingsVars, SettingsInv, SavedThere, LoadedSoFar, Loading, Returned, SameAsSaved, ReadUpTo
  <2> QED BY <2>2, <2>3 DEF SettingsInv
<1>4. StreamStep => UNCHANGED startVars
  BY DEF StreamStep, Packet, Submit, Failure, Handle, Devices, Others, LeaveLoop, EndSubmit,
         CleanUp, X11CleanUp, ImxCleanUp, BoardCleanUp, X11, SDL, IMX, MMAL, PI, AML
<1> QED BY <1>1, <1>2, <1>3, <1>4 DEF Next, StreamStep, vars

\* Any command lines, any files, any number of programs that follow one another, each of
\* which may be killed at any step: a program started with a file that -save completed has
\* the settings of the one that saved them, but for a packet size of 1024, and where
\* moonlight.conf says otherwise than the built-in value that was saved.
THEOREM SettingsReturn == Spec => []SavedSettingsReturn
<1>1. SettingsInv => SavedSettingsReturn
  BY DEF SettingsInv, SettingsTyped, LoadedSoFar, Loading, Returned, SavedSettingsReturn, LoadedSaved
<1>2. SettingsInv /\ [Next]_vars => SettingsInv'
  BY SettingsKept
<1> QED BY <1>1, <1>2, SettingsInitially, PTL DEF Spec

-----------------------------------------------------------------------------
(* SDL's queue: what is in it when an event is pushed, read or withdrawn.  *)

Has(q, e) == \E k \in DOMAIN q : q[k] = e

FramesIn(q) == {k \in DOMAIN q : q[k].type = "frame"}
FramesAfter(q, k) == Cardinality({j \in FramesIn(q) : j > k})

ByUser(q) == {k \in DOMAIN q : q[k].type \in {"input", "button"}}

\* A gamepad is announced at most once, and one event at most is the user's.
AddedOnce(q) == \A j, k \in DOMAIN q : q[k].type = "added" /\ q[j] = q[k] => j = k
UserOnce(q) == \A j, k \in ByUser(q) : j = k

\* No removal is to be read before the announcement of p.
Early(q, p) == \E k \in DOMAIN q : /\ q[k] = D!Added(p)
                                   /\ \A j \in 1 .. k : q[j].type # "removed"

\* r is q without the event at h.
Omits(q, h, r) == /\ h \in 1 .. Len(q)
                  /\ DOMAIN r = 1 .. Len(q) - 1
                  /\ \A k \in DOMAIN r : r[k] = q[IF k < h THEN k ELSE k + 1]

LEMMA TailOmits ==
  ASSUME NEW S, NEW q \in Seq(S), q # <<>>
  PROVE  Tail(q) \in Seq(S) /\ Len(Tail(q)) = Len(q) - 1 /\ Omits(q, 1, Tail(q)) /\ Head(q) = q[1]
<1>1. /\ Tail(q) \in Seq(S) /\ Len(Tail(q)) = Len(q) - 1 /\ Len(q) \in Nat /\ 1 \in 1 .. Len(q)
      /\ DOMAIN Tail(q) = 1 .. Len(q) - 1 /\ Head(q) = q[1]
      /\ \A k \in 1 .. Len(q) - 1 : Tail(q)[k] = q[k + 1]
  OBVIOUS
<1> QED BY <1>1 DEF Omits

LEMMA RemoveAtOmits ==
  ASSUME NEW S, NEW q \in Seq(S), NEW h \in 1 .. Len(q)
  PROVE  D!RemoveAt(q, h) \in Seq(S) /\ Len(D!RemoveAt(q, h)) = Len(q) - 1 /\ Omits(q, h, D!RemoveAt(q, h))
<1> DEFINE a == SubSeq(q, 1, h - 1)
           b == SubSeq(q, h + 1, Len(q))
<1>1. /\ a \in Seq(S) /\ Len(a) = h - 1 /\ \A k \in 1 .. h - 1 : a[k] = q[k]
      /\ b \in Seq(S) /\ Len(b) = Len(q) - h /\ \A k \in 1 .. Len(q) - h : b[k] = q[k + h]
  OBVIOUS
<1>2. /\ a \o b \in Seq(S) /\ Len(a \o b) = Len(q) - 1
      /\ \A k \in 1 .. Len(q) - 1 : (a \o b)[k] = q[IF k < h THEN k ELSE k + 1]
  <2> HIDE DEF a, b
  <2>1. /\ a \o b \in Seq(S) /\ Len(a \o b) = Len(a) + Len(b) /\ Len(q) \in Nat /\ h \in Nat
        /\ \A k \in 1 .. Len(a) + Len(b) : (a \o b)[k] = IF k <= Len(a) THEN a[k] ELSE b[k - Len(a)]
    <3>1. a \in Seq(S) /\ b \in Seq(S) /\ Len(q) \in Nat /\ h \in Nat
      BY <1>1
    <3> HIDE <1>1
    <3> QED BY <3>1, ConcatProperties
  <2>2. ASSUME NEW k \in 1 .. Len(q) - 1 PROVE (a \o b)[k] = q[IF k < h THEN k ELSE k + 1]
    <3>0. k \in 1 .. Len(a) + Len(b)
      BY <1>1, <2>1
    <3>1. CASE k < h
      <4>1. k <= Len(a) /\ k \in 1 .. h - 1
        BY <1>1, <2>1, <3>1
      <4> QED BY <1>1, <2>1, <3>0, <3>1, <4>1
    <3>2. CASE ~(k < h)
      <4>1. k - Len(a) \in 1 .. Len(q) - h /\ ~(k <= Len(a)) /\ k - Len(a) + h = k + 1
        BY <1>1, <2>1, <3>2
      <4>2. (a \o b)[k] = b[k - Len(a)]
        BY <2>1, <3>0, <4>1
      <4> QED BY <1>1, <3>2, <4>1, <4>2
    <3> QED BY <3>1, <3>2
  <2> QED BY <1>1, <2>1, <2>2
<1>3. D!RemoveAt(q, h) = a \o b
  BY DEF D!RemoveAt
<1> HIDE DEF a, b
<1>4. DOMAIN (a \o b) = 1 .. Len(q) - 1
  BY <1>2
<1> QED BY <1>2, <1>3, <1>4 DEF Omits

LEMMA OmitsShifts ==
  ASSUME NEW S, NEW q \in Seq(S), NEW h, NEW r, Omits(q, h, r)
  PROVE  /\ Len(q) \in Nat
         /\ DOMAIN r = 1 .. Len(q) - 1 /\ DOMAIN q = 1 .. Len(q) /\ h \in DOMAIN q
         /\ \A k \in DOMAIN r : k < h => k \in DOMAIN q /\ r[k] = q[k]
         /\ \A k \in DOMAIN r : ~(k < h) => k + 1 \in DOMAIN q /\ r[k] = q[k + 1]
         /\ \A j \in DOMAIN q : j < h => j \in DOMAIN r /\ r[j] = q[j]
         /\ \A j \in DOMAIN q : j > h => j - 1 \in DOMAIN r /\ r[j - 1] = q[j]
BY DEF Omits

LEMMA HasOmits ==
  ASSUME NEW S, NEW q \in Seq(S), NEW h, NEW r, Omits(q, h, r)
  PROVE  /\ \A e : Has(r, e) => Has(q, e)
         /\ \A e : Has(q, e) => Has(r, e) \/ e = q[h]
         /\ Has(q, q[h])
<1>1. ASSUME NEW e, Has(r, e) PROVE Has(q, e)
  BY <1>1, OmitsShifts DEF Has
<1>2. ASSUME NEW e, Has(q, e), e # q[h] PROVE Has(r, e)
  <2>1. PICK j \in DOMAIN q : q[j] = e
    BY <1>2 DEF Has
  <2>2. j < h \/ j > h
    BY <1>2, <2>1, OmitsShifts
  <2> QED BY <2>1, <2>2, OmitsShifts DEF Has
<1>3. Has(q, q[h])
  BY OmitsShifts DEF Has
<1> QED BY <1>1, <1>2, <1>3

LEMMA OnceOmits ==
  ASSUME NEW S, NEW q \in Seq(S), NEW h, NEW r, Omits(q, h, r)
  PROVE  /\ AddedOnce(q) => AddedOnce(r)
         /\ AddedOnce(q) /\ q[h].type = "added" => ~Has(r, q[h])
         /\ UserOnce(q) => UserOnce(r)
         /\ UserOnce(q) /\ h \in ByUser(q) => ByUser(r) = {}
<1>1. ASSUME AddedOnce(q) PROVE AddedOnce(r)
  <2> SUFFICES ASSUME NEW j \in DOMAIN r, NEW k \in DOMAIN r, r[k].type = "added", r[j] = r[k] PROVE j = k
    BY DEF AddedOnce
  <2>1. PICK jj \in DOMAIN q : q[jj] = r[j] /\ (jj = IF j < h THEN j ELSE j + 1)
    BY OmitsShifts
  <2>2. PICK kk \in DOMAIN q : q[kk] = r[k] /\ (kk = IF k < h THEN k ELSE k + 1)
    BY OmitsShifts
  <2>3. jj = kk
    BY <1>1, <2>1, <2>2 DEF AddedOnce
  <2>4. j \in Int /\ k \in Int /\ h \in Int
    BY OmitsShifts
  <2> QED BY <2>1, <2>2, <2>3, <2>4
<1>2. ASSUME AddedOnce(q), q[h].type = "added", Has(r, q[h]) PROVE FALSE
  <2>1. PICK j \in DOMAIN r : r[j] = q[h]
    BY <1>2 DEF Has
  <2>2. PICK jj \in DOMAIN q : q[jj] = r[j] /\ (jj = IF j < h THEN j ELSE j + 1)
    BY OmitsShifts
  <2>3. j \in Int /\ h \in Int /\ h \in DOMAIN q
    BY OmitsShifts
  <2>4. jj = h
    BY <1>2, <2>1, <2>2, <2>3 DEF AddedOnce
  <2> QED BY <2>2, <2>3, <2>4
<1>3. ASSUME UserOnce(q) PROVE UserOnce(r)
  <2> SUFFICES ASSUME NEW j \in ByUser(r), NEW k \in ByUser(r) PROVE j = k
    BY DEF UserOnce
  <2>1. PICK jj \in DOMAIN q : q[jj] = r[j] /\ (jj = IF j < h THEN j ELSE j + 1)
    BY OmitsShifts DEF ByUser
  <2>2. PICK kk \in DOMAIN q : q[kk] = r[k] /\ (kk = IF k < h THEN k ELSE k + 1)
    BY OmitsShifts DEF ByUser
  <2>3. jj = kk
    BY <1>3, <2>1, <2>2 DEF UserOnce, ByUser
  <2>4. j \in Int /\ k \in Int /\ h \in Int
    BY OmitsShifts DEF ByUser
  <2> QED BY <2>1, <2>2, <2>3, <2>4
<1>4. ASSUME UserOnce(q), h \in ByUser(q), NEW j \in ByUser(r) PROVE FALSE
  <2>2. PICK jj \in DOMAIN q : q[jj] = r[j] /\ (jj = IF j < h THEN j ELSE j + 1)
    BY OmitsShifts DEF ByUser
  <2>3. j \in Int /\ h \in Int
    BY OmitsShifts DEF ByUser
  <2>4. jj = h
    BY <1>4, <2>2 DEF UserOnce, ByUser
  <2> QED BY <2>2, <2>3, <2>4
<1> QED BY <1>1, <1>2, <1>3, <1>4

LEMMA EarlyOmits ==
  ASSUME NEW S, NEW q \in Seq(S), NEW h, NEW r, Omits(q, h, r), NEW p, Early(q, p), q[h] # D!Added(p)
  PROVE  Early(r, p)
<1>1. PICK k \in DOMAIN q : q[k] = D!Added(p) /\ \A j \in 1 .. k : q[j].type # "removed"
  BY DEF Early
<1>2. k \in Nat /\ h \in Nat /\ k # h
  BY <1>1, OmitsShifts
<1>3. CASE k < h
  <2>1. k \in DOMAIN r /\ r[k] = q[k] /\ \A j \in 1 .. k : j \in DOMAIN r /\ r[j] = q[j]
    BY <1>2, <1>3, OmitsShifts
  <2> QED BY <1>1, <2>1 DEF Early
<1>4. CASE k > h
  <2>1. k - 1 \in DOMAIN r /\ r[k - 1] = q[k]
    BY <1>2, <1>4, OmitsShifts
  <2>2. ASSUME NEW j \in 1 .. k - 1 PROVE r[j].type # "removed"
    <3>1. j \in DOMAIN r /\ j \in 1 .. k /\ j + 1 \in 1 .. k
      BY <1>2, <1>4, OmitsShifts
    <3>2. r[j] = q[j] \/ r[j] = q[j + 1]
      BY <3>1, OmitsShifts
    <3> QED BY <1>1, <3>1, <3>2
  <2> QED BY <1>1, <2>1, <2>2 DEF Early
<1> QED BY <1>2, <1>3, <1>4

LEMMA EarlyHead ==
  ASSUME NEW S, NEW q \in Seq(S), NEW p, Early(q, p)
  PROVE  q # <<>> /\ Head(q).type # "removed"
<1>1. PICK k \in DOMAIN q : q[k] = D!Added(p) /\ \A j \in 1 .. k : q[j].type # "removed"
  BY DEF Early
<1>2. 1 \in 1 .. k /\ q # <<>> /\ Head(q) = q[1]
  BY <1>1
<1> QED BY <1>1, <1>2

LEMMA PushedEvent ==
  ASSUME NEW S, NEW q \in Seq(S), NEW a \in S
  PROVE  /\ Append(q, a) \in Seq(S) /\ Len(Append(q, a)) = Len(q) + 1
         /\ \A e : Has(Append(q, a), e) <=> Has(q, e) \/ e = a
         /\ AddedOnce(q) /\ (a.type # "added" \/ ~Has(q, a)) => AddedOnce(Append(q, a))
         /\ UserOnce(q) /\ (a.type \notin {"input", "button"} \/ ByUser(q) = {}) => UserOnce(Append(q, a))
         /\ \A p : Early(q, p) => Early(Append(q, a), p)
<1> DEFINE r == Append(q, a)
           n == Len(q)
<1>1. /\ n \in Nat /\ DOMAIN q = 1 .. n /\ DOMAIN r = 1 .. n + 1 /\ r[n + 1] = a /\ r \in Seq(S)
      /\ Len(r) = n + 1 /\ \A k \in 1 .. n : r[k] = q[k]
  OBVIOUS
<1>2. \A k \in DOMAIN r : k \in DOMAIN q \/ k = n + 1
  BY <1>1
<1>3. \A k \in DOMAIN q : k \in DOMAIN r /\ k # n + 1 /\ r[k] = q[k]
  BY <1>1
<1>4. n + 1 \in DOMAIN r
  BY <1>1
<1> HIDE DEF r, n
<1>5. ASSUME NEW e PROVE Has(r, e) <=> Has(q, e) \/ e = a
  BY <1>1, <1>2, <1>3, <1>4 DEF Has
<1>6. ASSUME AddedOnce(q), a.type # "added" \/ ~Has(q, a) PROVE AddedOnce(r)
  BY <1>1, <1>2, <1>3, <1>4, <1>6 DEF AddedOnce, Has
<1>7. ASSUME UserOnce(q), a.type \notin {"input", "button"} \/ ByUser(q) = {} PROVE UserOnce(r)
  BY <1>1, <1>2, <1>3, <1>4, <1>7 DEF UserOnce, ByUser
<1>8. ASSUME NEW p, Early(q, p) PROVE Early(r, p)
  <2>1. PICK k \in DOMAIN q : q[k] = D!Added(p) /\ \A j \in 1 .. k : q[j].type # "removed"
    BY <1>8 DEF Early
  <2>2. k \in DOMAIN r /\ r[k] = q[k] /\ \A j \in 1 .. k : r[j] = q[j]
    BY <1>1, <1>3
  <2> QED BY <2>1, <2>2 DEF Early
<1> QED BY <1>1, <1>5, <1>6, <1>7, <1>8 DEF r, n

-----------------------------------------------------------------------------
(* The frames that wait in the queue.                                      *)

LEMMA FramesCounted ==
  ASSUME NEW S, NEW q \in Seq(S), NEW k
  PROVE  IsFiniteSet({j \in FramesIn(q) : j > k}) /\ FramesAfter(q, k) \in Nat
<1>1. IsFiniteSet(1 .. Len(q)) /\ DOMAIN q = 1 .. Len(q)
  <2>1. Len(q) \in Nat /\ DOMAIN q = 1 .. Len(q) /\ 1 \in Int /\ Len(q) \in Int
    OBVIOUS
  <2> QED BY <2>1, FS_Interval
<1>2. {j \in FramesIn(q) : j > k} \subseteq 1 .. Len(q)
  BY <1>1 DEF FramesIn
<1> QED BY <1>1, <1>2, FS_Subset, FS_CardinalityType DEF FramesAfter

LEMMA FramesAppended ==
  ASSUME NEW S, NEW q \in Seq(S), NEW a \in S
  PROVE  /\ \A k \in 0 .. Len(q) : FramesAfter(Append(q, a), k) =
              IF a.type = "frame" THEN FramesAfter(q, k) + 1 ELSE FramesAfter(q, k)
         /\ FramesAfter(Append(q, a), Len(q) + 1) = 0
<1> DEFINE r == Append(q, a)
           n == Len(q)
<1>1. /\ n \in Nat /\ DOMAIN q = 1 .. n /\ DOMAIN r = 1 .. n + 1 /\ r[n + 1] = a
      /\ \A k \in 1 .. n : r[k] = q[k]
  OBVIOUS
<1> HIDE DEF r, n
<1>2. ASSUME NEW k \in 0 .. n
      PROVE FramesAfter(r, k) = IF a.type = "frame" THEN FramesAfter(q, k) + 1 ELSE FramesAfter(q, k)
  <2> DEFINE was == {j \in FramesIn(q) : j > k}
             is == {j \in FramesIn(r) : j > k}
  <2>1. IsFiniteSet(was) /\ n + 1 \notin was
    <3>1. IsFiniteSet(was)
      BY FramesCounted
    <3>2. \A j \in was : j \in 1 .. n
      BY <1>1 DEF FramesIn
    <3> QED BY <1>1, <3>1, <3>2
  <2>2. ASSUME NEW j PROVE j \in is <=> j \in was \/ (j = n + 1 /\ a.type = "frame")
    <3>1. CASE j \in 1 .. n
      <4>1. r[j] = q[j] /\ j \in 1 .. n + 1 /\ j # n + 1
        BY <1>1, <3>1
      <4> QED BY <1>1, <3>1, <4>1 DEF FramesIn
    <3>2. CASE j = n + 1
      <4>1. n + 1 > k /\ n + 1 \in 1 .. n + 1
        BY <1>1
      <4> QED BY <1>1, <2>1, <3>2, <4>1 DEF FramesIn
    <3>3. CASE j \notin 1 .. n /\ j # n + 1
      <4>1. j \notin 1 .. n + 1
        BY <1>1, <3>3
      <4> QED BY <1>1, <3>3, <4>1 DEF FramesIn
    <3> QED BY <3>1, <3>2, <3>3
  <2> HIDE DEF was, is
  <2>3. CASE a.type = "frame"
    <3>1. is = was \cup {n + 1}
      BY <2>2, <2>3
    <3>2. Cardinality(is) = Cardinality(was) + 1
      BY <2>1, <3>1, FS_AddElement
    <3> QED BY <2>3, <3>2 DEF FramesAfter, was, is
  <2>4. CASE a.type # "frame"
    <3>1. is = was
      BY <2>2, <2>4
    <3> QED BY <2>4, <3>1 DEF FramesAfter, was, is
  <2> QED BY <2>3, <2>4
<1>3. FramesAfter(r, n + 1) = 0
  <2>1. {j \in FramesIn(r) : j > n + 1} = {}
    BY <1>1 DEF FramesIn
  <2> QED BY <2>1, FS_EmptySet DEF FramesAfter
<1> QED BY <1>2, <1>3 DEF r, n

\* What is taken out of the queue leaves the frames behind k where they were.
LEMMA FramesOmitted ==
  ASSUME NEW S, NEW q \in Seq(S), NEW h, NEW r \in Seq(S), Omits(q, h, r),
         NEW k \in Nat, NEW i \in Nat,
         i = k \/ i = k + 1,
         i = k => k < h,
         i = k + 1 => h <= i,
         q[h].type # "frame" \/ h <= i
  PROVE  FramesAfter(r, k) = FramesAfter(q, i)
<1> DEFINE from == {j \in FramesIn(r) : j > k}
           to == {j \in FramesIn(q) : j > i}
           f == [j \in from |-> IF j < h THEN j ELSE j + 1]
<1>0. h \in DOMAIN q /\ h \in Int /\ DOMAIN r \subseteq Int /\ DOMAIN q \subseteq Int
  BY OmitsShifts
<1>1. ASSUME NEW j \in from PROVE f[j] \in to
  <2>1. j \in DOMAIN r /\ r[j].type = "frame" /\ j > k /\ j \in Int
    BY <1>0 DEF FramesIn
  <2>2. CASE j < h
    <3>1. j \in DOMAIN q /\ q[j] = r[j] /\ f[j] = j
      BY <2>1, <2>2, OmitsShifts
    <3>2. j > i
      BY <1>0, <2>1, <2>2
    <3> QED BY <2>1, <3>1, <3>2 DEF FramesIn
  <2>3. CASE ~(j < h)
    <3>1. j + 1 \in DOMAIN q /\ q[j + 1] = r[j] /\ f[j] = j + 1
      BY <2>1, <2>3, OmitsShifts
    <3>2. j + 1 > i
      BY <1>0, <2>1, <2>3
    <3> QED BY <2>1, <3>1, <3>2 DEF FramesIn
  <2> QED BY <2>2, <2>3
<1>2. ASSUME NEW j \in to PROVE \E m \in from : f[m] = j
  <2>1. j \in DOMAIN q /\ q[j].type = "frame" /\ j > i /\ j \in Int
    BY <1>0 DEF FramesIn
  <2>2. j # h
    BY <1>0, <2>1
  <2>3. CASE j < h
    <3>1. j \in DOMAIN r /\ r[j] = q[j] /\ j > k
      BY <1>0, <2>1, <2>3, OmitsShifts
    <3> QED BY <2>1, <2>3, <3>1 DEF FramesIn
  <2>4. CASE j > h
    <3>1. j - 1 \in DOMAIN r /\ r[j - 1] = q[j] /\ j - 1 > k /\ ~(j - 1 < h) /\ j - 1 + 1 = j
      BY <1>0, <2>1, <2>4, OmitsShifts
    <3>2. j - 1 \in from
      BY <2>1, <3>1 DEF FramesIn
    <3>3. f[j - 1] = j
      BY <3>1, <3>2
    <3> QED BY <3>2, <3>3
  <2> QED BY <1>0, <2>1, <2>2, <2>3, <2>4
<1>3. ASSUME NEW a \in from, NEW b \in from, f[a] = f[b] PROVE a = b
  <2>1. a \in Int /\ b \in Int
    BY <1>0 DEF FramesIn
  <2> QED BY <1>0, <1>3, <2>1
<1>4. f \in [from -> to]
  BY <1>1
<1>5. IsFiniteSet(from) /\ IsFiniteSet(to)
  BY FramesCounted
<1> HIDE DEF from, to, f
<1>6. f \in Bijection(from, to)
  BY <1>2, <1>3, <1>4 DEF Bijection, Injection, Surjection, IsInjective
<1>7. ExistsBijection(from, to)
  BY <1>6 DEF ExistsBijection
<1>8. Cardinality(to) = Cardinality(from)
  BY <1>5, <1>7, FS_Bijection
<1> QED BY <1>8 DEF FramesAfter, from, to

LEMMA FrameFirst ==
  ASSUME NEW S, NEW q \in Seq(S), q # <<>>, Head(q).type = "frame"
  PROVE  FramesAfter(q, 0) = FramesAfter(q, 1) + 1
<1>1. 1 \in DOMAIN q /\ DOMAIN q = 1 .. Len(q) /\ Head(q) = q[1]
  OBVIOUS
<1>2. {j \in FramesIn(q) : j > 0} = {j \in FramesIn(q) : j > 1} \cup {1}
  BY <1>1 DEF FramesIn
<1>3. 1 \notin {j \in FramesIn(q) : j > 1}
  OBVIOUS
<1>4. IsFiniteSet({j \in FramesIn(q) : j > 1})
  BY FramesCounted
<1> QED BY <1>2, <1>3, <1>4, FS_AddElement DEF FramesAfter

LEMMA SdlCardinality ==
  ASSUME NEW S
  PROVE  D!Cardinality(S) = Cardinality(S)
BY DEF D!Cardinality, D!IsFiniteSet, Cardinality, IsFiniteSet

LEMMA FramesQueuedAre ==
  ASSUME NEW S, queue \in Seq(S)
  PROVE  D!FramesQueued = FramesAfter(queue, 0)
<1>1. FramesIn(queue) = {j \in FramesIn(queue) : j > 0}
  BY DEF FramesIn
<1> QED BY <1>1, SdlCardinality DEF D!FramesQueued, FramesAfter, FramesIn

-----------------------------------------------------------------------------
(* Frames of SDL: the ring and the numbers.                                *)

LEMMA SdlBounds ==
  /\ FrameCount \in Nat /\ FrameCount > 0 /\ QueueSize \in Nat /\ QueueSize > 0
  /\ MAX_GAMEPADS \in Nat /\ MAX_GAMEPADS > 0
  /\ MaxFrames \in Nat /\ MaxPlugs \in Nat /\ MaxWork \in Nat
  /\ D!Entries = 0 .. FrameCount - 1 /\ D!Indices = 0 .. MAX_GAMEPADS - 1 /\ 0 \in D!Indices
  /\ D!Pads = 1 .. MaxPlugs /\ D!None = 0 /\ D!NoFrame = 0 /\ D!None \notin D!Pads
BY StreamingAssumption DEF D!Entries, D!Indices, D!Pads, D!None, D!NoFrame

\* How many frames were decoded after the one in an entry of the ring, of which next is
\* filled next.
Age(e, next) == IF e < next THEN next - 1 - e ELSE next - 1 - e + FrameCount

\* The entries of the events of the last frames are those frames', and the events that
\* wait are the difference of the two counters.
Numbers(q, l) ==
  /\ sdlCurrentFrame + FramesAfter(q, 0) <= sdlNextFrame
  /\ ~l => /\ sdlCurrentFrame + FramesAfter(q, 0) = sdlNextFrame
           /\ \A k \in FramesIn(q) :
                FramesAfter(q, k) < FrameCount => Age(q[k].entry, next_frame) = FramesAfter(q, k)

NumbersInv ==
  /\ sdlNextFrame = decoded
  /\ \A e \in D!Entries : dec_frames[e] \in {D!NoFrame, decoded - Age(e, next_frame)}
  /\ Numbers(queue, lost)

LEMMA PushedTo ==
  ASSUME NEW S, NEW q \in Seq(S), Len(q) <= QueueSize, NEW e \in S, lost \in BOOLEAN, D!PushTo(q, e)
  PROVE  /\ queue' \in Seq(S) /\ Len(queue') <= QueueSize /\ lost' \in BOOLEAN
         /\ queue' = q \/ queue' = Append(q, e)
         /\ ~lost' => ~lost /\ queue' = Append(q, e)
<1>1. Len(Append(q, e)) = Len(q) + 1 /\ Len(q) \in Nat /\ Append(q, e) \in Seq(S)
  OBVIOUS
<1>2. CASE Len(q) < QueueSize /\ queue' = Append(q, e) /\ lost' = lost
  <2>1. Len(queue') <= QueueSize
    BY <1>1, <1>2, SdlBounds
  <2> QED BY <1>1, <1>2, <2>1
<1>3. CASE queue' = q /\ lost' = TRUE
  BY <1>3
<1> QED BY <1>2, <1>3 DEF D!PushTo

LEMMA Withdrawing ==
  ASSUME NEW S, queue \in Seq(S), NEW p
  PROVE  /\ D!Withdrawn(p) \in Seq(S) /\ Len(D!Withdrawn(p)) <= Len(queue)
         /\ \/ \E h \in DOMAIN queue : queue[h] = D!Added(p) /\ Omits(queue, h, D!Withdrawn(p))
            \/ ~Has(queue, D!Added(p)) /\ D!Withdrawn(p) = queue
<1>1. CASE \E k \in DOMAIN queue : queue[k] = D!Added(p)
  <2> DEFINE h == CHOOSE k \in DOMAIN queue : queue[k] = D!Added(p)
  <2>1. h \in DOMAIN queue /\ queue[h] = D!Added(p)
    BY <1>1
  <2>2. D!Withdrawn(p) = D!RemoveAt(queue, h)
    BY <1>1 DEF D!Withdrawn
  <2> HIDE DEF h
  <2>3. h \in 1 .. Len(queue) /\ Len(queue) \in Nat
    BY <2>1
  <2> QED BY <2>1, <2>2, <2>3, RemoveAtOmits
<1>2. CASE ~ \E k \in DOMAIN queue : queue[k] = D!Added(p)
  BY <1>2 DEF D!Withdrawn, Has
<1> QED BY <1>1, <1>2

LEMMA FrameEvents ==
  ASSUME NEW q \in Seq(D!Event), NEW k \in FramesIn(q)
  PROVE  k \in 1 .. Len(q) /\ q[k].entry \in D!Entries
<1>1. k \in DOMAIN q /\ q[k].type = "frame" /\ q[k] \in D!Event /\ DOMAIN q = 1 .. Len(q)
  BY DEF FramesIn
<1> QED BY <1>1 DEF D!Event, D!PadEvent

\* An event that is no frame's, pushed or lost.
LEMMA OtherPushed ==
  ASSUME NEW q \in Seq(D!Event), NEW e \in D!Event, e.type # "frame", NEW l, NEW r,
         sdlCurrentFrame \in Nat, sdlNextFrame \in Nat, Numbers(q, lost),
         r = q \/ r = Append(q, e),
         ~l => ~lost
  PROVE  Numbers(r, l)
<1>1. CASE r = q
  BY <1>1 DEF Numbers
<1>2. CASE r = Append(q, e)
  <2>1. Len(q) \in Nat /\ 0 \in 0 .. Len(q)
    OBVIOUS
  <2>2. FramesAfter(r, 0) = FramesAfter(q, 0)
    BY <1>2, <2>1, FramesAppended
  <2>3. ASSUME NEW k \in FramesIn(r)
        PROVE k \in FramesIn(q) /\ r[k] = q[k] /\ FramesAfter(r, k) = FramesAfter(q, k)
    <3>1. k \in DOMAIN q /\ r[k] = q[k]
      BY <1>2 DEF FramesIn
    <3>2. k \in 0 .. Len(q)
      BY <3>1
    <3>3. FramesAfter(r, k) = FramesAfter(q, k)
      BY <1>2, <3>2, FramesAppended
    <3> QED BY <3>1, <3>3 DEF FramesIn
  <2> HIDE <1>2
  <2> QED BY <2>2, <2>3 DEF Numbers
<1> QED BY <1>1, <1>2

\* An event that is no frame's, taken out.
LEMMA OtherOmitted ==
  ASSUME NEW q \in Seq(D!Event), NEW h, q[h].type # "frame", NEW r \in Seq(D!Event), Omits(q, h, r),
         Numbers(q, lost)
  PROVE  Numbers(r, lost)
<1>1. FramesAfter(r, 0) = FramesAfter(q, 0)
  <2>1. h \in Nat /\ 0 < h /\ 0 \in Nat
    BY OmitsShifts
  <2> QED BY <2>1, FramesOmitted
<1>2. ASSUME NEW k \in FramesIn(r)
      PROVE \E i \in FramesIn(q) : r[k] = q[i] /\ FramesAfter(r, k) = FramesAfter(q, i)
  <2>1. k \in DOMAIN r /\ r[k].type = "frame" /\ k \in Nat /\ h \in Nat
    BY OmitsShifts DEF FramesIn
  <2>2. CASE k < h
    <3>1. k \in DOMAIN q /\ r[k] = q[k]
      BY <2>1, <2>2, OmitsShifts
    <3>2. FramesAfter(r, k) = FramesAfter(q, k)
      BY <2>1, <2>2, FramesOmitted
    <3> QED BY <2>1, <3>1, <3>2 DEF FramesIn
  <2>3. CASE ~(k < h)
    <3>1. k + 1 \in DOMAIN q /\ r[k] = q[k + 1] /\ k + 1 \in Nat /\ h <= k + 1 /\ k + 1 # k
      BY <2>1, <2>3, OmitsShifts
    <3>2. FramesAfter(r, k) = FramesAfter(q, k + 1)
      BY <2>1, <3>1, FramesOmitted
    <3> QED BY <2>1, <3>1, <3>2 DEF FramesIn
  <2> QED BY <2>2, <2>3
<1> QED BY <1>1, <1>2 DEF Numbers

\* The first event, read by the loop.
LEMMA HeadRead ==
  ASSUME NEW q \in Seq(D!Event), q # <<>>, sdlCurrentFrame \in Nat, Numbers(q, lost), Head(q).type = "frame"
  PROVE  /\ sdlCurrentFrame + 1 + FramesAfter(Tail(q), 0) <= sdlNextFrame
         /\ ~lost => sdlCurrentFrame + 1 + FramesAfter(Tail(q), 0) = sdlNextFrame
         /\ FramesAfter(Tail(q), 0) = FramesAfter(q, 1) /\ FramesAfter(q, 1) \in Nat
         /\ ~lost => \A k \in FramesIn(Tail(q)) : FramesAfter(Tail(q), k) < FrameCount =>
                          Age(Tail(q)[k].entry, next_frame) = FramesAfter(Tail(q), k)
<1> DEFINE r == Tail(q)
<1>1. r \in Seq(D!Event) /\ Omits(q, 1, r) /\ Head(q) = q[1]
  BY TailOmits
<1> HIDE DEF r
<1>2. FramesAfter(r, 0) = FramesAfter(q, 1)
  <2>1. 0 \in Nat /\ 1 \in Nat /\ 1 = 0 + 1 /\ 1 <= 1
    OBVIOUS
  <2> QED BY <1>1, <2>1, FramesOmitted
<1>3. FramesAfter(q, 0) = FramesAfter(q, 1) + 1 /\ FramesAfter(q, 1) \in Nat
  BY FrameFirst, FramesCounted
<1>4. ASSUME NEW k \in FramesIn(r)
      PROVE k + 1 \in FramesIn(q) /\ r[k] = q[k + 1] /\ FramesAfter(r, k) = FramesAfter(q, k + 1)
  <2>1. k \in DOMAIN r /\ r[k].type = "frame" /\ k \in Nat /\ ~(k < 1)
    BY <1>1, OmitsShifts DEF FramesIn
  <2>2. k + 1 \in DOMAIN q /\ r[k] = q[k + 1] /\ k + 1 \in Nat /\ 1 <= k + 1 /\ k + 1 # k
    BY <1>1, <2>1, OmitsShifts
  <2>3. FramesAfter(r, k) = FramesAfter(q, k + 1)
    BY <1>1, <2>1, <2>2, FramesOmitted
  <2> QED BY <2>1, <2>2, <2>3 DEF FramesIn
<1>5. sdlCurrentFrame + 1 + FramesAfter(r, 0) = sdlCurrentFrame + FramesAfter(q, 0)
  BY <1>2, <1>3
<1> QED BY <1>2, <1>3, <1>4, <1>5 DEF Numbers, r

\* The ring turns: what was decoded before the last frame is one frame older.
LEMMA RingTurns ==
  ASSUME next_frame \in D!Entries, next_frame' = D!NextEntry
  PROVE  /\ next_frame' \in D!Entries
         /\ \A e \in D!Entries : /\ Age(e, next_frame) \in 0 .. FrameCount - 1
                                 /\ e # next_frame => Age(e, next_frame') = Age(e, next_frame) + 1
                                 /\ e = next_frame => Age(e, next_frame') = 0
                                 /\ Age(e, next_frame) < FrameCount - 1 => e # next_frame
<1>1. next_frame' = IF next_frame + 1 = FrameCount THEN 0 ELSE next_frame + 1
  <2>1. next_frame + 1 \in Nat /\ next_frame + 1 <= FrameCount
    BY SdlBounds
  <2>2. ASSUME next_frame + 1 = FrameCount PROVE (next_frame + 1) % FrameCount = 0
    BY <2>1, <2>2, SdlBounds
  <2>3. ASSUME next_frame + 1 # FrameCount PROVE (next_frame + 1) % FrameCount = next_frame + 1
    BY <2>1, <2>3, SdlBounds
  <2> QED BY <2>2, <2>3 DEF D!NextEntry
<1> QED BY <1>1, SdlBounds DEF Age

LEMMA SubmitNumbers ==
  ASSUME D!TypeOK, NumbersInv, D!Submit
  PROVE  NumbersInv'
<1>1. /\ decoded \in Nat /\ decoded' = decoded + 1 /\ sdlNextFrame' = sdlNextFrame + 1
      /\ sdlCurrentFrame' = sdlCurrentFrame /\ sdlCurrentFrame \in Nat /\ sdlNextFrame \in Nat
      /\ next_frame \in D!Entries /\ next_frame' = D!NextEntry
      /\ dec_frames' = [dec_frames EXCEPT ![next_frame] = decoded + 1]
      /\ dec_frames \in [D!Entries -> 0 .. MaxFrames]
      /\ queue \in Seq(D!Event) /\ Len(queue) <= QueueSize /\ lost \in BOOLEAN
      /\ D!PushTo(queue, [type |-> "frame", entry |-> next_frame])
  BY SdlBounds DEF D!Submit, D!GetFrame, D!TypeOK, D!FramesTypeOK, D!PushEvent
<1> DEFINE e0 == [type |-> "frame", entry |-> next_frame]
<1>2. e0 \in D!Event /\ e0.type = "frame" /\ e0.entry = next_frame
  BY <1>1 DEF D!Event
<1>3. /\ queue' \in Seq(D!Event)
      /\ queue' = queue \/ queue' = Append(queue, e0)
      /\ ~lost' => ~lost /\ queue' = Append(queue, e0)
  BY <1>1, <1>2, PushedTo
<1> HIDE DEF e0
<1>4. \A e \in D!Entries : dec_frames'[e] \in {D!NoFrame, decoded' - Age(e, next_frame')}
  <2> TAKE e \in D!Entries
  <2>1. CASE e = next_frame
    BY <1>1, <2>1, RingTurns
  <2>2. CASE e # next_frame
    <3>1. dec_frames'[e] = dec_frames[e] /\ Age(e, next_frame') = Age(e, next_frame) + 1 /\ Age(e, next_frame) \in Int
      BY <1>1, <2>2, RingTurns
    <3>2. dec_frames[e] \in {D!NoFrame, decoded - Age(e, next_frame)}
      BY DEF NumbersInv
    <3> QED BY <1>1, <3>1, <3>2
  <2> QED BY <2>1, <2>2
<1>5. Len(queue) \in Nat /\ 0 \in 0 .. Len(queue)
  BY <1>1
<1>6. FramesAfter(Append(queue, e0), 0) = FramesAfter(queue, 0) + 1 /\ FramesAfter(queue, 0) \in Nat
  BY <1>1, <1>2, <1>5, FramesAppended, FramesCounted
<1>7. sdlCurrentFrame' + FramesAfter(queue', 0) <= sdlNextFrame'
  <2>1. sdlCurrentFrame + FramesAfter(queue, 0) <= sdlNextFrame
    BY DEF NumbersInv, Numbers
  <2>2. CASE queue' = queue
    BY <1>1, <1>6, <2>1, <2>2
  <2>3. CASE queue' = Append(queue, e0)
    BY <1>1, <1>6, <2>1, <2>3
  <2> QED BY <1>3, <2>2, <2>3
<1>8. ASSUME ~lost'
      PROVE  /\ sdlCurrentFrame' + FramesAfter(queue', 0) = sdlNextFrame'
             /\ \A k \in FramesIn(queue') :
                  FramesAfter(queue', k) < FrameCount => Age(queue'[k].entry, next_frame') = FramesAfter(queue', k)
  <2>1. ~lost /\ queue' = Append(queue, e0)
    BY <1>3, <1>8
  <2>2. Numbers(queue, lost)
    BY DEF NumbersInv
  <2>3. sdlCurrentFrame' + FramesAfter(queue', 0) = sdlNextFrame'
    <3>1. sdlCurrentFrame + FramesAfter(queue, 0) = sdlNextFrame
      BY <2>1, <2>2 DEF Numbers
    <3>2. FramesAfter(queue', 0) = FramesAfter(queue, 0) + 1 /\ FramesAfter(queue, 0) \in Nat
      BY <1>6, <2>1
    <3>3. sdlCurrentFrame' = sdlCurrentFrame /\ sdlNextFrame' = sdlNextFrame + 1 /\ sdlCurrentFrame \in Nat
      BY <1>1
    <3> QED BY ONLY <3>1, <3>2, <3>3
  <2>4. ASSUME NEW k \in FramesIn(queue'), FramesAfter(queue', k) < FrameCount
        PROVE Age(queue'[k].entry, next_frame') = FramesAfter(queue', k)
    <3>1. CASE k \in DOMAIN queue
      <4>1. queue'[k] = queue[k] /\ k \in 0 .. Len(queue)
        BY <1>1, <2>1, <3>1
      <4>2. FramesAfter(queue', k) = FramesAfter(queue, k) + 1 /\ FramesAfter(queue, k) \in Nat
        BY <1>1, <1>2, <2>1, <4>1, FramesAppended, FramesCounted
      <4>3. k \in FramesIn(queue)
        BY <2>4, <3>1, <4>1 DEF FramesIn
      <4>4. FramesAfter(queue, k) < FrameCount - 1 /\ FramesAfter(queue, k) < FrameCount
        BY <2>4, <4>2, SdlBounds
      <4>5. Age(queue[k].entry, next_frame) = FramesAfter(queue, k)
        BY <2>1, <2>2, <4>3, <4>4 DEF Numbers
      <4>6. queue[k].entry \in D!Entries
        BY <1>1, <4>3, FrameEvents
      <4>7. Age(queue[k].entry, next_frame') = Age(queue[k].entry, next_frame) + 1
        <5> DEFINE e == queue[k].entry
        <5>1. Age(e, next_frame) < FrameCount - 1 /\ e \in D!Entries
          BY <4>4, <4>5, <4>6
        <5> HIDE DEF e
        <5>2. e # next_frame
          BY <1>1, <5>1, RingTurns
        <5>3. Age(e, next_frame') = Age(e, next_frame) + 1
          BY <1>1, <5>1, <5>2, RingTurns
        <5> QED BY <5>3 DEF e
      <4> QED BY <4>1, <4>2, <4>5, <4>7
    <3>2. CASE k \notin DOMAIN queue
      <4>1. k = Len(queue) + 1 /\ queue'[k] = e0
        BY <1>1, <2>1, <2>4, <3>2 DEF FramesIn
      <4>2. FramesAfter(queue', k) = 0
        BY <1>1, <1>2, <2>1, <4>1, FramesAppended
      <4>3. Age(next_frame, next_frame') = 0
        BY <1>1, RingTurns
      <4> QED BY <1>2, <4>1, <4>2, <4>3
    <3> QED BY <3>1, <3>2
  <2> QED BY <2>3, <2>4
<1>9. sdlNextFrame' = decoded'
  BY <1>1 DEF NumbersInv
<1>10. Numbers(queue, lost)'
  BY ONLY <1>7, <1>8 DEF Numbers
<1> QED BY <1>4, <1>9, <1>10 DEF NumbersInv

\* Before sdl_init nothing has happened.
SetupInv == lpc = "setup" => /\ queue = <<>> /\ decoded = 0 /\ sdlCurrentFrame = 0
                             /\ plugs = 0 /\ attached = <<>>

LEMMA NumbersCarried ==
  ASSUME NumbersInv, UNCHANGED <<decoded, dec_frames, next_frame, sdlCurrentFrame, sdlNextFrame>>,
         Numbers(queue', lost')
  PROVE  NumbersInv'
BY DEF NumbersInv, Numbers

LEMMA PushNumbers ==
  ASSUME D!TypeOK, NumbersInv, NEW e \in D!Event, e.type # "frame", D!PushEvent(e),
         UNCHANGED <<D!frameVars, D!counters>>
  PROVE  NumbersInv'
<1>1. /\ queue \in Seq(D!Event) /\ Len(queue) <= QueueSize /\ lost \in BOOLEAN
      /\ sdlCurrentFrame \in Nat /\ sdlNextFrame \in Nat /\ Numbers(queue, lost)
  BY SdlBounds DEF D!TypeOK, NumbersInv
<1>2. (queue' = queue \/ queue' = Append(queue, e)) /\ (~lost' => ~lost)
  BY <1>1, PushedTo DEF D!PushEvent
<1>3. Numbers(queue', lost')
  BY <1>1, <1>2, OtherPushed
<1> QED BY <1>3, NumbersCarried DEF D!frameVars, D!counters

LEMMA WithdrawNumbers ==
  ASSUME D!TypeOK, NumbersInv, NEW p \in D!Pads, D!Detach(p), UNCHANGED <<D!frameVars, D!counters>>
  PROVE  NumbersInv'
<1> DEFINE u == D!Withdrawn(p)
           e == [type |-> "removed", pad |-> p]
<1>1. /\ queue \in Seq(D!Event) /\ Len(queue) <= QueueSize /\ lost \in BOOLEAN
      /\ sdlCurrentFrame \in Nat /\ sdlNextFrame \in Nat /\ Numbers(queue, lost)
  BY SdlBounds DEF D!TypeOK, NumbersInv
<1>2. /\ u \in Seq(D!Event) /\ Len(u) <= Len(queue)
      /\ \/ \E h \in DOMAIN queue : queue[h] = D!Added(p) /\ Omits(queue, h, u)
         \/ u = queue
  BY <1>1, Withdrawing
<1>3. e \in D!Event /\ e.type # "frame" /\ D!Added(p).type # "frame"
  BY DEF D!Event, D!PadEvent, D!Added
<1>4. \/ D!PushTo(u, e)
      \/ queue' = u /\ UNCHANGED lost
  BY DEF D!Detach
<1> HIDE DEF u, e
<1>5. Numbers(u, lost)
  BY <1>1, <1>2, <1>3, OtherOmitted
<1>6. Len(u) <= QueueSize
  <2>1. Len(u) \in Nat /\ Len(queue) \in Nat
    BY <1>1, <1>2
  <2> QED BY <1>1, <1>2, <2>1, SdlBounds
<1>7. CASE D!PushTo(u, e)
  <2>1. (queue' = u \/ queue' = Append(u, e)) /\ (~lost' => ~lost)
    BY <1>1, <1>2, <1>3, <1>6, <1>7, PushedTo
  <2>2. Numbers(queue', lost')
    BY <1>1, <1>2, <1>3, <1>5, <2>1, OtherPushed
  <2> QED BY <2>2, NumbersCarried DEF D!frameVars, D!counters
<1>8. CASE queue' = u /\ UNCHANGED lost
  BY <1>5, <1>8, NumbersCarried DEF D!frameVars, D!counters
<1> QED BY <1>4, <1>7, <1>8

LEMMA ReadNumbers ==
  ASSUME D!TypeOK, NumbersInv, queue # <<>>, Head(queue).type # "frame", queue' = Tail(queue),
         UNCHANGED <<lost, D!frameVars, D!counters>>
  PROVE  NumbersInv'
<1>1. queue \in Seq(D!Event) /\ Numbers(queue, lost)
  BY DEF D!TypeOK, NumbersInv
<1>2. /\ Tail(queue) \in Seq(D!Event) /\ Omits(queue, 1, Tail(queue)) /\ Head(queue) = queue[1]
  BY <1>1, TailOmits
<1>3. Numbers(Tail(queue), lost)
  BY <1>1, <1>2, OtherOmitted
<1> QED BY <1>3, NumbersCarried DEF D!frameVars, D!counters

LEMMA FrameEventNumbers ==
  ASSUME D!TypeOK, NumbersInv, D!FrameEvent
  PROVE  NumbersInv' /\ sdlCurrentFrame' \in 0 .. MaxFrames
<1>1. /\ queue \in Seq(D!Event) /\ queue # <<>> /\ Head(queue).type = "frame" /\ queue' = Tail(queue)
      /\ sdlCurrentFrame \in Nat /\ sdlCurrentFrame' = sdlCurrentFrame + 1 /\ sdlNextFrame \in 0 .. MaxFrames
      /\ UNCHANGED <<decoded, dec_frames, next_frame, sdlNextFrame, lost>> /\ Numbers(queue, lost)
  BY SdlBounds DEF D!TypeOK, NumbersInv, D!FrameEvent, D!First, D!frameVars
<1>2. /\ sdlCurrentFrame' + FramesAfter(queue', 0) <= sdlNextFrame
      /\ ~lost => sdlCurrentFrame' + FramesAfter(queue', 0) = sdlNextFrame
      /\ FramesAfter(queue', 0) \in Nat
      /\ ~lost => \A k \in FramesIn(queue') : FramesAfter(queue', k) < FrameCount =>
                       Age(queue'[k].entry, next_frame) = FramesAfter(queue', k)
  BY <1>1, HeadRead
<1>3. NumbersInv'
  BY <1>1, <1>2 DEF NumbersInv, Numbers
<1> QED BY <1>1, <1>2, <1>3, SdlBounds

LEMMA NumbersStep ==
  ASSUME D!TypeOK, NumbersInv, SetupInv, D!Next
  PROVE  NumbersInv'
<1>1. CASE D!SetUp
  <2>1. PICK n \in Nat : /\ queue' = [p \in {q \in 1 .. n : q <= QueueSize} |-> D!Added(p)]
                         /\ UNCHANGED <<D!frameVars, D!counters>>
    BY <1>1, SdlBounds DEF D!SetUp, D!sdlinput_init
  <2>2. FramesIn(queue') = {}
    BY <2>1 DEF FramesIn, D!Added
  <2>3. FramesAfter(queue', 0) = 0
    <3>1. {j \in FramesIn(queue') : j > 0} = {}
      BY <2>2
    <3> QED BY <3>1, FS_EmptySet DEF FramesAfter
  <2>4. sdlCurrentFrame = 0 /\ sdlNextFrame = 0
    BY <1>1 DEF SetupInv, NumbersInv, D!SetUp
  <2>5. Numbers(queue', lost')
    BY <2>2, <2>3, <2>4 DEF Numbers
  <2> QED BY <2>1, <2>5, NumbersCarried DEF D!frameVars, D!counters
<1>2. CASE D!Submit
  BY <1>2, SubmitNumbers
<1>3. CASE D!SubmitNothing
  <2>1. /\ UNCHANGED <<decoded, next_frame, queue, lost, sdlCurrentFrame, sdlNextFrame>>
        /\ dec_frames' = [dec_frames EXCEPT ![next_frame] = D!NoFrame]
        /\ dec_frames \in [D!Entries -> 0 .. MaxFrames]
    BY <1>3 DEF D!SubmitNothing, D!GetNoFrame, D!counters, D!TypeOK, D!FramesTypeOK
  <2>2. \A e \in D!Entries : dec_frames'[e] \in {D!NoFrame, dec_frames[e]}
    BY <2>1
  <2> QED BY <2>1, <2>2 DEF NumbersInv, Numbers
<1>4. CASE D!ConnectionTerminated
  <2>1. [type |-> "quit"] \in D!Event
    BY DEF D!Event
  <2> QED BY <1>4, <2>1, PushNumbers DEF D!ConnectionTerminated
<1>5. CASE D!Input
  <2>1. [type |-> "input"] \in D!Event
    BY DEF D!Event
  <2> QED BY <1>5, <2>1, PushNumbers DEF D!Input
<1>6. CASE D!PadsMove
  <2>0. UNCHANGED <<D!frameVars, D!counters>>
    BY <1>6 DEF D!PadsMove
  <2>1. CASE D!Attach
    <3>1. D!Added(plugs + 1) \in D!Event /\ D!Added(plugs + 1).type # "frame"
      BY <2>1, SdlBounds DEF D!Attach, D!Event, D!PadEvent, D!Added, D!TypeOK, D!InputTypeOK
    <3> QED BY <2>0, <2>1, <3>1, PushNumbers DEF D!Attach
  <2>2. ASSUME NEW p \in D!Pads, D!Detach(p) PROVE NumbersInv'
    BY <2>0, <2>2, WithdrawNumbers
  <2>3. ASSUME NEW p \in D!Pads, NEW b \in Buttons, D!Button(p, b) PROVE NumbersInv'
    <3> DEFINE e == [type |-> "button", pad |-> p, button |-> b, down |-> b \notin attached[p]]
    <3>1. e \in D!Event /\ e.type # "frame"
      BY DEF D!Event, D!PadEvent
    <3>2. D!PushEvent(e)
      BY <2>3 DEF D!Button
    <3> HIDE DEF e
    <3> QED BY <2>0, <3>1, <3>2, PushNumbers
  <2> QED BY <1>6, <2>1, <2>2, <2>3 DEF D!PadsMove, D!World
<1>7. CASE D!FrameEvent
  BY <1>7, FrameEventNumbers
<1>8. CASE D!Upload \/ D!Close
  <2>1. UNCHANGED <<D!frameVars, D!counters, queue, lost>>
    BY <1>8 DEF D!Upload, D!Close
  <2> QED BY <2>1 DEF NumbersInv, Numbers, D!frameVars, D!counters
<1>9. CASE D!QuitEvent \/ D!InputEvent \/ D!PadEventRead \/ D!PadNotOpened
  <2>1. queue # <<>> /\ queue' = Tail(queue) /\ UNCHANGED <<lost, D!frameVars, D!counters>>
    BY <1>9 DEF D!QuitEvent, D!InputEvent, D!PadEventRead, D!PadNotOpened, D!First
  <2>2. Head(queue).type # "frame"
    BY <1>9 DEF D!QuitEvent, D!InputEvent, D!PadEventRead, D!PadNotOpened, D!First, D!HandlePad
  <2> QED BY <2>1, <2>2, ReadNumbers
<1> QED BY <1>1, <1>2, <1>3, <1>4, <1>5, <1>6, <1>7, <1>8, <1>9 DEF D!Next, D!Loop

-----------------------------------------------------------------------------
(* The table of SDL's gamepads.                                            *)

Gamepad == [sdl_id : D!Pads \cup {D!None}, controller : D!Pads \cup {D!None}, buttons : SUBSET Buttons]
HostView == [mask : SUBSET D!Indices, buttons : [D!Indices -> SUBSET Buttons]]

InUse(g) == {i \in D!Indices : g[i].sdl_id # D!None}
HeldBy(g, p) == {i \in InUse(g) : g[i].sdl_id = p}

\* The entries that a reference to the controller of p is owed to: those of p, and those
\* that close it when they are given up.
Claims(g, p) == {i \in InUse(g) : g[i].sdl_id = p \/ g[i].controller = p}

TableTyped ==
  /\ refs \in [D!Pads -> Nat] /\ gamepads \in [D!Indices -> Gamepad]
  /\ sdl_gamepads \in Nat /\ host \in HostView

MaskInv ==
  /\ activeGamepadMask = InUse(gamepads) /\ host.mask = InUse(gamepads)
  /\ \A i \in D!Indices \ InUse(gamepads) : host.buttons[i] = {}
  /\ lpc # "done" => \A i \in InUse(gamepads) : host.buttons[i] = gamepads[i].buttons

OneEach(g) == \A i, j \in InUse(g) : g[i].sdl_id = g[j].sdl_id => i = j

\* As long as no gamepad had to do without an entry, an entry's controller is its own.
RefsInv ==
  /\ OneEach(gamepads)
  /\ \A p \in D!Pads : refs[p] >= Cardinality(Claims(gamepads, p))
  /\ sdl_gamepads >= Cardinality(InUse(gamepads))
  /\ sdl_gamepads = Cardinality(InUse(gamepads)) =>
       /\ \A i \in InUse(gamepads) : gamepads[i].controller = gamepads[i].sdl_id
       /\ \A p \in D!Pads : refs[p] = Cardinality(HeldBy(gamepads, p))

TableInv == TableTyped /\ MaskInv /\ RefsInv

\* What the handlers write into the table.
Taken(g, m, p) == [g EXCEPT ![m] = [sdl_id |-> p, controller |-> p, buttons |-> {}]]
Shared(g, p) == [g EXCEPT ![0].controller = p]
Freed(g, m) == [g EXCEPT ![m] = D!Unused]

LEMMA TableNames ==
  /\ D!Initialized = InUse(gamepads)
  /\ \A p : D!Holding(p) = HeldBy(gamepads, p)
  /\ D!Room = D!Indices \ InUse(gamepads)
  /\ D!Overflown <=> sdl_gamepads # Cardinality(InUse(gamepads))
BY SdlCardinality DEF D!Initialized, D!Holding, D!Room, D!Overflown, InUse, HeldBy

LEMMA TableFinite ==
  ASSUME NEW g, NEW p
  PROVE  /\ IsFiniteSet(InUse(g)) /\ Cardinality(InUse(g)) \in Nat
         /\ IsFiniteSet(HeldBy(g, p)) /\ Cardinality(HeldBy(g, p)) \in Nat
         /\ IsFiniteSet(Claims(g, p)) /\ Cardinality(Claims(g, p)) \in Nat
         /\ HeldBy(g, p) \subseteq Claims(g, p) /\ Claims(g, p) \subseteq InUse(g)
<1>1. IsFiniteSet(D!Indices)
  <2>1. 0 \in Int /\ MAX_GAMEPADS - 1 \in Int
    BY SdlBounds
  <2> QED BY <2>1, SdlBounds, FS_Interval
<1>2. InUse(g) \subseteq D!Indices /\ HeldBy(g, p) \subseteq D!Indices /\ Claims(g, p) \subseteq D!Indices
  BY DEF InUse, HeldBy, Claims
<1>3. IsFiniteSet(InUse(g)) /\ IsFiniteSet(HeldBy(g, p)) /\ IsFiniteSet(Claims(g, p))
  BY <1>1, <1>2, FS_Subset
<1> QED BY <1>3, FS_CardinalityType DEF HeldBy, Claims

LEMMA SmallestNumber ==
  ASSUME NEW S \in SUBSET Nat, S # {}
  PROVE  \E m \in S : \A o \in S : m <= o
<1> DEFINE R == OpToRel(<, Nat)
<1>1. IsWellFoundedOn(R, Nat)
  BY NatLessThanWellFounded
<1>2. \E x \in S : \A y \in S : ~(<<y, x>> \in R)
  <2> HIDE DEF R
  <2> QED BY <1>1, WFMin
<1>3. \A x, y \in S : ~(<<y, x>> \in R) => x <= y
  BY DEF OpToRel
<1> QED BY <1>2, <1>3

LEMMA LeastThere ==
  ASSUME NEW S \in SUBSET D!Indices, S # {}
  PROVE  D!Least(S) \in S
<1>1. S \in SUBSET Nat
  BY SdlBounds
<1>2. \E m \in S : \A o \in S : m <= o
  BY <1>1, SmallestNumber
<1> QED BY <1>2 DEF D!Least

\* p gets the free entry m.
LEMMA EntryTaken ==
  ASSUME NEW g \in [D!Indices -> Gamepad], NEW p \in D!Pads, HeldBy(g, p) = {}, OneEach(g),
         NEW m \in D!Indices \ InUse(g),
         NEW r, r = Taken(g, m, p)
  PROVE  /\ r \in [D!Indices -> Gamepad] /\ OneEach(r)
         /\ InUse(r) = InUse(g) \cup {m}
         /\ Cardinality(InUse(r)) = Cardinality(InUse(g)) + 1
         /\ \A q \in D!Pads : IF q = p THEN /\ HeldBy(r, q) = {m}
                                            /\ Cardinality(Claims(r, q)) = Cardinality(Claims(g, q)) + 1
                                       ELSE /\ HeldBy(r, q) = HeldBy(g, q)
                                            /\ Claims(r, q) = Claims(g, q)
         /\ r[m] = [sdl_id |-> p, controller |-> p, buttons |-> {}]
         /\ \A i \in InUse(g) : i # m /\ r[i] = g[i]
<1> DEFINE new == [sdl_id |-> p, controller |-> p, buttons |-> {}]
<1>1. new \in Gamepad /\ new.sdl_id = p /\ new.controller = p /\ p # D!None /\ new.sdl_id # D!None
  BY SdlBounds DEF Gamepad
<1> HIDE DEF new
<1>2. r \in [D!Indices -> Gamepad] /\ r[m] = new /\ \A i \in D!Indices : i # m => r[i] = g[i]
  BY <1>1 DEF new, Taken
<1>3. InUse(r) = InUse(g) \cup {m} /\ m \notin InUse(g)
  BY <1>1, <1>2 DEF InUse
<1>4. \A i \in InUse(g) : i # m /\ r[i] = g[i] /\ i \in D!Indices
  BY <1>2 DEF InUse
<1>5. OneEach(r)
  <2> SUFFICES ASSUME NEW i \in InUse(r), NEW j \in InUse(r), r[i].sdl_id = r[j].sdl_id PROVE i = j
    BY DEF OneEach
  <2>1. \A k \in InUse(g) : g[k].sdl_id # p
    BY DEF HeldBy
  <2> QED BY <1>1, <1>2, <1>3, <1>4, <2>1 DEF OneEach
<1>6. HeldBy(r, p) = {m} /\ Claims(r, p) = Claims(g, p) \cup {m} /\ m \notin Claims(g, p)
  <2>1. \A i : i \in HeldBy(r, p) <=> i = m
    BY <1>1, <1>2, <1>3, <1>4 DEF HeldBy
  <2>2. \A i : i \in Claims(r, p) <=> i \in Claims(g, p) \/ i = m
    BY <1>1, <1>2, <1>3, <1>4 DEF Claims
  <2>3. m \notin Claims(g, p)
    BY <1>3 DEF Claims
  <2>4. HeldBy(r, p) = {m}
    BY <2>1
  <2>5. Claims(r, p) = Claims(g, p) \cup {m}
    BY <2>2
  <2> QED BY <2>3, <2>4, <2>5
<1>7. ASSUME NEW q \in D!Pads, q # p PROVE HeldBy(r, q) = HeldBy(g, q) /\ Claims(r, q) = Claims(g, q)
  BY <1>1, <1>2, <1>3, <1>4, <1>7 DEF HeldBy, Claims
<1>8. Cardinality(Claims(r, p)) = Cardinality(Claims(g, p)) + 1
  BY <1>6, TableFinite, FS_AddElement
<1>9. Cardinality(InUse(r)) = Cardinality(InUse(g)) + 1
  BY <1>3, TableFinite, FS_AddElement
<1> QED BY <1>2, <1>3, <1>4, <1>5, <1>6, <1>7, <1>8, <1>9 DEF new

LEMMA OneMore ==
  ASSUME NEW S, IsFiniteSet(S), Cardinality(S) \in Nat, NEW x
  PROVE  IsFiniteSet(S \cup {x}) /\ Cardinality(S \cup {x}) <= Cardinality(S) + 1
<1>1. CASE x \in S
  <2>1. S \cup {x} = S
    BY <1>1
  <2>2. Cardinality(S) <= Cardinality(S) + 1
    OBVIOUS
  <2> QED BY ONLY <2>1, <2>2, IsFiniteSet(S)
<1>2. CASE x \notin S
  <2>1. IsFiniteSet(S \cup {x}) /\ Cardinality(S \cup {x}) = Cardinality(S) + 1
    BY <1>2, FS_AddElement
  <2> QED BY <2>1
<1> QED BY <1>1, <1>2

\* The newcomer p finds no free entry: it becomes the controller of entry 0.
LEMMA EntryShared ==
  ASSUME NEW g \in [D!Indices -> Gamepad], NEW p \in D!Pads, OneEach(g),
         NEW r, r = Shared(g, p)
  PROVE  /\ r \in [D!Indices -> Gamepad] /\ OneEach(r)
         /\ InUse(r) = InUse(g)
         /\ \A q : HeldBy(r, q) = HeldBy(g, q)
         /\ Cardinality(Claims(r, p)) <= Cardinality(Claims(g, p)) + 1
         /\ \A q : q # p => Cardinality(Claims(r, q)) <= Cardinality(Claims(g, q))
         /\ \A i \in D!Indices : r[i].buttons = g[i].buttons /\ r[i].sdl_id = g[i].sdl_id
<1>0. 0 \in D!Indices
  BY SdlBounds
<1>1. /\ r \in [D!Indices -> Gamepad]
      /\ \A i \in D!Indices : r[i].buttons = g[i].buttons /\ r[i].sdl_id = g[i].sdl_id
      /\ \A i \in D!Indices : i # 0 => r[i].controller = g[i].controller
      /\ r[0].controller = p
  BY <1>0 DEF Gamepad, Shared
<1>2. InUse(r) = InUse(g)
  BY <1>1 DEF InUse
<1>3. InUse(g) \subseteq D!Indices
  BY DEF InUse
<1>4. OneEach(r)
  BY <1>1, <1>2, <1>3 DEF OneEach
<1>5. \A q : HeldBy(r, q) = HeldBy(g, q)
  BY <1>1, <1>2, <1>3 DEF HeldBy
<1>6. Claims(r, p) \subseteq Claims(g, p) \cup {0}
  BY <1>1, <1>2, <1>3 DEF Claims
<1>7. \A q : q # p => Claims(r, q) \subseteq Claims(g, q)
  BY <1>1, <1>2, <1>3 DEF Claims
<1>8. Cardinality(Claims(r, p)) <= Cardinality(Claims(g, p)) + 1
  <2>1. /\ IsFiniteSet(Claims(g, p) \cup {0}) /\ Cardinality(Claims(g, p)) \in Nat
        /\ Cardinality(Claims(g, p) \cup {0}) <= Cardinality(Claims(g, p)) + 1
    <3>1. IsFiniteSet(Claims(g, p)) /\ Cardinality(Claims(g, p)) \in Nat
      BY TableFinite
    <3> QED BY ONLY <3>1, OneMore
  <2>2. Cardinality(Claims(r, p)) <= Cardinality(Claims(g, p) \cup {0})
    BY <1>6, <2>1, FS_Subset
  <2>3. Cardinality(Claims(r, p)) \in Nat /\ Cardinality(Claims(g, p) \cup {0}) \in Nat
    BY <2>1, TableFinite, FS_CardinalityType
  <2> QED BY <2>1, <2>2, <2>3
<1>9. ASSUME NEW q, q # p PROVE Cardinality(Claims(r, q)) <= Cardinality(Claims(g, q))
  BY <1>7, <1>9, TableFinite, FS_Subset
<1> QED BY <1>1, <1>2, <1>4, <1>5, <1>8, <1>9

\* Entry m is given up.
LEMMA EntryFreed ==
  ASSUME NEW g \in [D!Indices -> Gamepad], OneEach(g), NEW m \in InUse(g),
         NEW r, r = Freed(g, m)
  PROVE  /\ r \in [D!Indices -> Gamepad] /\ OneEach(r)
         /\ InUse(r) = InUse(g) \ {m}
         /\ Cardinality(InUse(r)) = Cardinality(InUse(g)) - 1
         /\ \A q : /\ HeldBy(r, q) = HeldBy(g, q) \ {m}
                   /\ Cardinality(Claims(r, q)) =
                        IF m \in Claims(g, q) THEN Cardinality(Claims(g, q)) - 1 ELSE Cardinality(Claims(g, q))
                   /\ Cardinality(HeldBy(r, q)) =
                        IF m \in HeldBy(g, q) THEN Cardinality(HeldBy(g, q)) - 1 ELSE Cardinality(HeldBy(g, q))
         /\ \A i \in InUse(r) : i # m /\ r[i] = g[i]
<1>1. D!Unused \in Gamepad /\ D!Unused.sdl_id = D!None /\ m \in D!Indices
  BY DEF Gamepad, D!Unused, InUse
<1>2. r \in [D!Indices -> Gamepad] /\ r[m].sdl_id = D!None /\ \A i \in D!Indices : i # m => r[i] = g[i]
  BY <1>1 DEF Freed
<1>3. InUse(r) = InUse(g) \ {m}
  BY <1>1, <1>2 DEF InUse
<1>4. \A i \in InUse(r) : i # m /\ r[i] = g[i]
  BY <1>2, <1>3 DEF InUse
<1>5. OneEach(r)
  BY <1>3, <1>4 DEF OneEach
<1>6. \A q : HeldBy(r, q) = HeldBy(g, q) \ {m} /\ Claims(r, q) = Claims(g, q) \ {m}
  BY <1>3, <1>4 DEF HeldBy, Claims
<1>7. Cardinality(InUse(r)) = Cardinality(InUse(g)) - 1
  BY <1>3, TableFinite, FS_RemoveElement
<1>8. ASSUME NEW q
      PROVE  /\ Cardinality(Claims(r, q)) =
                  IF m \in Claims(g, q) THEN Cardinality(Claims(g, q)) - 1 ELSE Cardinality(Claims(g, q))
             /\ Cardinality(HeldBy(r, q)) =
                  IF m \in HeldBy(g, q) THEN Cardinality(HeldBy(g, q)) - 1 ELSE Cardinality(HeldBy(g, q))
  <2>1. IsFiniteSet(Claims(g, q)) /\ IsFiniteSet(HeldBy(g, q))
    BY TableFinite
  <2>2. /\ Cardinality(Claims(g, q) \ {m}) =
             IF m \in Claims(g, q) THEN Cardinality(Claims(g, q)) - 1 ELSE Cardinality(Claims(g, q))
        /\ Cardinality(HeldBy(g, q) \ {m}) =
             IF m \in HeldBy(g, q) THEN Cardinality(HeldBy(g, q)) - 1 ELSE Cardinality(HeldBy(g, q))
    BY <2>1, FS_RemoveElement
  <2>3. HeldBy(r, q) = HeldBy(g, q) \ {m} /\ Claims(r, q) = Claims(g, q) \ {m}
    BY <1>6
  <2> QED BY <2>2, <2>3
<1> QED BY <1>2, <1>3, <1>4, <1>5, <1>6, <1>7, <1>8

\* A message of the program: the host has the mask, and no buttons of what it leaves out.
LEMMA Told ==
  ASSUME host \in HostView, NEW i \in D!Indices, NEW mask \in SUBSET D!Indices, NEW bs \in SUBSET Buttons,
         D!Tell(i, mask, bs)
  PROVE  /\ host' \in HostView /\ host'.mask = mask
         /\ \A j \in D!Indices \ mask : host'.buttons[j] = {}
         /\ i \in mask => host'.buttons[i] = bs
         /\ \A j \in mask : j # i => host'.buttons[j] = host.buttons[j]
<1> DEFINE f == [j \in D!Indices |-> IF j \notin mask THEN {} ELSE IF j = i THEN bs ELSE host.buttons[j]]
<1>1. host' = [mask |-> mask, buttons |-> f]
  BY DEF D!Tell
<1>2. f \in [D!Indices -> SUBSET Buttons]
  BY DEF HostView
<1>3. \A j \in D!Indices : f[j] = IF j \notin mask THEN {} ELSE IF j = i THEN bs ELSE host.buttons[j]
  OBVIOUS
<1> HIDE DEF f
<1>4. host' \in HostView /\ host'.mask = mask /\ host'.buttons = f
  BY <1>1, <1>2 DEF HostView
<1> QED BY <1>3, <1>4

LEMMA InUseThere ==
  ASSUME NEW g, NEW p
  PROVE  InUse(g) \in SUBSET D!Indices /\ HeldBy(g, p) \in SUBSET D!Indices /\ HeldBy(g, p) \subseteq InUse(g)
BY DEF InUse, HeldBy

\* What is known of the table once `added' of p was handled: p has an entry or there was
\* none.
LEMMA AddKept ==
  ASSUME TableInv, NEW p \in D!Pads, D!add_gamepad(p), lpc' # "done" \/ lpc = "done", lpc # "done"
  PROVE  /\ TableInv'
         /\ \/ /\ HeldBy(gamepads, p) # {} /\ UNCHANGED <<refs, gamepads, sdl_gamepads>>
            \/ /\ HeldBy(gamepads, p) = {} /\ refs' = [refs EXCEPT ![p] = @ + 1]
               /\ \/ \E m \in D!Indices \ InUse(gamepads) :
                       gamepads' = Taken(gamepads, m, p)
                  \/ InUse(gamepads) = D!Indices /\ gamepads' = Shared(gamepads, p)
               /\ sdl_gamepads' = sdl_gamepads + 1
<1>0. /\ host \in HostView /\ gamepads \in [D!Indices -> Gamepad] /\ refs \in [D!Pads -> Nat]
      /\ sdl_gamepads \in Nat
      /\ activeGamepadMask = InUse(gamepads) /\ host.mask = InUse(gamepads)
      /\ \A i \in D!Indices \ InUse(gamepads) : host.buttons[i] = {}
      /\ \A i \in InUse(gamepads) : host.buttons[i] = gamepads[i].buttons
      /\ OneEach(gamepads)
      /\ \A i \in D!Indices : host.buttons[i] \in SUBSET Buttons
  BY DEF TableInv, TableTyped, MaskInv, RefsInv, HostView
<1>1. CASE D!AddKnown(p)
  <2> DEFINE i == D!Least(D!Holding(p))
  <2>1. i \in InUse(gamepads) /\ HeldBy(gamepads, p) # {}
    BY <1>1, TableNames, InUseThere, LeastThere DEF D!AddKnown
  <2>2. /\ D!Tell(i, activeGamepadMask, host.buttons[i])
        /\ UNCHANGED <<refs, gamepads, activeGamepadMask, sdl_gamepads>>
    BY <1>1 DEF D!AddKnown, D!Arrive
  <2> HIDE DEF i
  <2>3. i \in D!Indices
    BY <2>1, InUseThere
  <2>4. /\ host' \in HostView /\ host'.mask = InUse(gamepads)
        /\ \A j \in D!Indices \ InUse(gamepads) : host'.buttons[j] = {}
        /\ host'.buttons[i] = host.buttons[i]
        /\ \A j \in InUse(gamepads) : j # i => host'.buttons[j] = host.buttons[j]
    BY <1>0, <2>1, <2>2, <2>3, InUseThere, Told
  <2>5. MaskInv'
    BY <1>0, <2>1, <2>2, <2>4 DEF MaskInv
  <2>6. TableTyped' /\ RefsInv'
    BY <2>2, <2>4 DEF TableInv, TableTyped, RefsInv
  <2> QED BY <2>1, <2>2, <2>5, <2>6 DEF TableInv
<1>2. CASE D!AddNew(p) /\ D!Room # {}
  <2> DEFINE m == D!Least(D!Room)
  <2>1. m \in D!Indices \ InUse(gamepads) /\ HeldBy(gamepads, p) = {}
    BY <1>2, TableNames, LeastThere DEF D!AddNew
  <2>2. /\ refs' = [refs EXCEPT ![p] = @ + 1]
        /\ gamepads' = Taken(gamepads, m, p)
        /\ activeGamepadMask' = activeGamepadMask \cup {m}
        /\ D!Tell(m, activeGamepadMask', host.buttons[m])
        /\ sdl_gamepads' = sdl_gamepads + 1
    BY <1>2 DEF D!AddNew, D!Arrive, Taken
  <2> HIDE DEF m
  <2>3. /\ gamepads' \in [D!Indices -> Gamepad] /\ OneEach(gamepads')
        /\ InUse(gamepads') = InUse(gamepads) \cup {m}
        /\ Cardinality(InUse(gamepads')) = Cardinality(InUse(gamepads)) + 1
        /\ \A q \in D!Pads : IF q = p THEN /\ HeldBy(gamepads', q) = {m}
                                           /\ Cardinality(Claims(gamepads', q)) = Cardinality(Claims(gamepads, q)) + 1
                                      ELSE /\ HeldBy(gamepads', q) = HeldBy(gamepads, q)
                                           /\ Claims(gamepads', q) = Claims(gamepads, q)
        /\ gamepads'[m] = [sdl_id |-> p, controller |-> p, buttons |-> {}]
        /\ \A i \in InUse(gamepads) : i # m /\ gamepads'[i] = gamepads[i]
    <3>1. /\ gamepads \in [D!Indices -> Gamepad] /\ OneEach(gamepads) /\ HeldBy(gamepads, p) = {}
          /\ p \in D!Pads /\ m \in D!Indices \ InUse(gamepads)
          /\ gamepads' = Taken(gamepads, m, p)
      BY <1>0, <2>1, <2>2
    <3> QED BY ONLY <3>1, EntryTaken
  <2>4. m \in D!Indices /\ activeGamepadMask' = InUse(gamepads') /\ InUse(gamepads') \in SUBSET D!Indices
    BY <1>0, <2>1, <2>2, <2>3, InUseThere
  <2>5. /\ host' \in HostView /\ host'.mask = InUse(gamepads')
        /\ \A j \in D!Indices \ InUse(gamepads') : host'.buttons[j] = {}
        /\ host'.buttons[m] = host.buttons[m]
        /\ \A j \in InUse(gamepads') : j # m => host'.buttons[j] = host.buttons[j]
    <3>1. /\ host \in HostView /\ m \in D!Indices /\ InUse(gamepads') \in SUBSET D!Indices
          /\ host.buttons[m] \in SUBSET Buttons /\ m \in InUse(gamepads')
      BY <1>0, <2>3, <2>4
    <3>2. D!Tell(m, InUse(gamepads'), host.buttons[m])
      BY <2>2, <2>4
    <3> QED BY ONLY <3>1, <3>2, Told
  <2>6. \A i \in InUse(gamepads') : host'.buttons[i] = gamepads'[i].buttons
    <3>1. host'.buttons[m] = {} /\ gamepads'[m].buttons = {}
      BY <1>0, <2>1, <2>3, <2>5
    <3>2. \A i \in InUse(gamepads) : host'.buttons[i] = gamepads'[i].buttons
      BY <1>0, <2>3, <2>5
    <3> QED BY <2>3, <3>1, <3>2
  <2>7. MaskInv'
    BY <2>4, <2>5, <2>6 DEF MaskInv
  <2>8. refs' \in [D!Pads -> Nat] /\ refs'[p] = refs[p] + 1 /\ \A q \in D!Pads : q # p => refs'[q] = refs[q]
    BY <1>0, <2>2
  <2>9. \A q \in D!Pads : refs'[q] >= Cardinality(Claims(gamepads', q))
    <3> TAKE q \in D!Pads
    <3>1. refs[q] >= Cardinality(Claims(gamepads, q)) /\ refs[q] \in Nat /\ Cardinality(Claims(gamepads, q)) \in Nat
      BY <1>0, TableFinite DEF TableInv, RefsInv
    <3> QED BY <2>3, <2>8, <3>1
  <2>10. sdl_gamepads >= Cardinality(InUse(gamepads)) /\ Cardinality(InUse(gamepads)) \in Nat
    BY TableFinite DEF TableInv, RefsInv
  <2>11. sdl_gamepads' >= Cardinality(InUse(gamepads'))
    BY <1>0, <2>2, <2>3, <2>10
  <2>12. ASSUME sdl_gamepads' = Cardinality(InUse(gamepads'))
         PROVE  /\ \A i \in InUse(gamepads') : gamepads'[i].controller = gamepads'[i].sdl_id
                /\ \A q \in D!Pads : refs'[q] = Cardinality(HeldBy(gamepads', q))
    <3>1. sdl_gamepads = Cardinality(InUse(gamepads))
      BY <1>0, <2>2, <2>3, <2>10, <2>12
    <3>2. /\ \A i \in InUse(gamepads) : gamepads[i].controller = gamepads[i].sdl_id
          /\ \A q \in D!Pads : refs[q] = Cardinality(HeldBy(gamepads, q))
      BY <3>1 DEF TableInv, RefsInv
    <3>3. \A i \in InUse(gamepads') : gamepads'[i].controller = gamepads'[i].sdl_id
      BY <2>3, <3>2
    <3>4. Cardinality({m}) = 1 /\ Cardinality({}) = 0
      BY FS_Singleton, FS_EmptySet
    <3>5. refs'[p] = Cardinality(HeldBy(gamepads', p))
      <4>1. HeldBy(gamepads', p) = {m} /\ refs[p] = 0
        BY <2>1, <2>3, <3>2, <3>4
      <4> QED BY <2>8, <3>4, <4>1
    <3>6. ASSUME NEW q \in D!Pads, q # p PROVE refs'[q] = Cardinality(HeldBy(gamepads', q))
      BY <2>3, <2>8, <3>2, <3>6
    <3> QED BY <3>3, <3>5, <3>6
  <2>13. RefsInv'
    BY <2>3, <2>9, <2>11, <2>12 DEF RefsInv
  <2>14. TableTyped'
    BY <1>0, <2>2, <2>3, <2>5, <2>8 DEF TableTyped
  <2> QED BY <2>1, <2>2, <2>7, <2>13, <2>14 DEF TableInv
<1>3. CASE D!AddNew(p) /\ D!Room = {}
  <2>1. /\ refs' = [refs EXCEPT ![p] = @ + 1] /\ gamepads' = Shared(gamepads, p)
        /\ activeGamepadMask' = activeGamepadMask /\ D!Tell(0, activeGamepadMask, host.buttons[0])
        /\ sdl_gamepads' = sdl_gamepads + 1 /\ HeldBy(gamepads, p) = {}
    BY <1>3, TableNames DEF D!AddNew, D!Arrive, Shared
  <2>2. InUse(gamepads) = D!Indices
    BY <1>3, TableNames, InUseThere
  <2>3. 0 \in D!Indices /\ 0 \in InUse(gamepads)
    BY <2>2, SdlBounds
  <2>4. /\ gamepads' \in [D!Indices -> Gamepad] /\ OneEach(gamepads')
        /\ InUse(gamepads') = InUse(gamepads)
        /\ Cardinality(Claims(gamepads', p)) <= Cardinality(Claims(gamepads, p)) + 1
        /\ \A q : q # p => Cardinality(Claims(gamepads', q)) <= Cardinality(Claims(gamepads, q))
        /\ \A i \in D!Indices : gamepads'[i].buttons = gamepads[i].buttons /\ gamepads'[i].sdl_id = gamepads[i].sdl_id
    <3>1. /\ gamepads \in [D!Indices -> Gamepad] /\ OneEach(gamepads) /\ p \in D!Pads
          /\ gamepads' = Shared(gamepads, p)
      BY <1>0, <2>1
    <3> QED BY ONLY <3>1, EntryShared
  <2>5. /\ host' \in HostView /\ host'.mask = InUse(gamepads)
        /\ \A j \in D!Indices \ InUse(gamepads) : host'.buttons[j] = {}
        /\ host'.buttons[0] = host.buttons[0]
        /\ \A j \in InUse(gamepads) : j # 0 => host'.buttons[j] = host.buttons[j]
    BY <1>0, <2>1, <2>2, <2>3, Told
  <2>6. MaskInv'
    BY <1>0, <2>1, <2>2, <2>4, <2>5 DEF MaskInv
  <2>8. refs' \in [D!Pads -> Nat] /\ refs'[p] = refs[p] + 1 /\ \A q \in D!Pads : q # p => refs'[q] = refs[q]
    BY <1>0, <2>1
  <2>9. \A q \in D!Pads : refs'[q] >= Cardinality(Claims(gamepads', q))
    <3> TAKE q \in D!Pads
    <3>1. /\ refs[q] >= Cardinality(Claims(gamepads, q)) /\ refs[q] \in Nat
          /\ Cardinality(Claims(gamepads, q)) \in Nat /\ Cardinality(Claims(gamepads', q)) \in Nat
      BY <1>0, TableFinite DEF TableInv, RefsInv
    <3> QED BY <2>4, <2>8, <3>1
  <2>10. sdl_gamepads' > Cardinality(InUse(gamepads'))
    <3>1. sdl_gamepads >= Cardinality(InUse(gamepads)) /\ Cardinality(InUse(gamepads)) \in Nat
      BY TableFinite DEF TableInv, RefsInv
    <3> QED BY <1>0, <2>1, <2>4, <3>1
  <2>11. sdl_gamepads' \in Nat
    BY <1>0, <2>1
  <2>14. Cardinality(InUse(gamepads')) \in Nat
    BY TableFinite
  <2>12. RefsInv'
    BY <2>4, <2>9, <2>10, <2>11, <2>14 DEF RefsInv
  <2>13. TableTyped'
    BY <2>4, <2>5, <2>8, <2>11 DEF TableTyped
  <2> QED BY <2>1, <2>2, <2>6, <2>12, <2>13 DEF TableInv
<1> QED BY <1>1, <1>2, <1>3 DEF D!add_gamepad

LEMMA RemoveKept ==
  ASSUME TableInv, NEW p \in D!Pads, D!remove_gamepad(p), lpc # "done"
  PROVE  /\ TableInv'
         /\ \/ HeldBy(gamepads, p) = {} /\ UNCHANGED <<refs, gamepads, sdl_gamepads>>
            \/ \E m \in HeldBy(gamepads, p) :
                 /\ gamepads' = Freed(gamepads, m)
                 /\ refs' = [refs EXCEPT ![gamepads[m].controller] = @ - 1]
                 /\ sdl_gamepads' = sdl_gamepads - 1
<1>0. /\ host \in HostView /\ gamepads \in [D!Indices -> Gamepad] /\ refs \in [D!Pads -> Nat]
      /\ sdl_gamepads \in Nat
      /\ activeGamepadMask = InUse(gamepads) /\ host.mask = InUse(gamepads)
      /\ \A i \in D!Indices \ InUse(gamepads) : host.buttons[i] = {}
      /\ \A i \in InUse(gamepads) : host.buttons[i] = gamepads[i].buttons
      /\ OneEach(gamepads)
  BY DEF TableInv, TableTyped, MaskInv, RefsInv
<1>1. CASE D!Holding(p) = {} /\ UNCHANGED D!padVars
  BY <1>1, TableNames DEF D!padVars, TableInv, TableTyped, MaskInv, RefsInv
<1>2. CASE D!Holding(p) # {} /\ D!RemoveFrom(D!Least(D!Holding(p)), D!Unused)
  <2> DEFINE m == D!Least(D!Holding(p))
             c == gamepads[m].controller
  <2>1. m \in HeldBy(gamepads, p) /\ m \in InUse(gamepads) /\ m \in D!Indices
    BY <1>2, TableNames, InUseThere, LeastThere
  <2>2. /\ refs' = [refs EXCEPT ![c] = @ - 1]
        /\ activeGamepadMask' = activeGamepadMask \ {m}
        /\ D!Tell(m, activeGamepadMask', {})
        /\ gamepads' = Freed(gamepads, m)
        /\ sdl_gamepads' = sdl_gamepads - 1
    BY <1>2 DEF D!RemoveFrom, Freed
  <2>c. c = gamepads[m].controller
    OBVIOUS
  <2> HIDE DEF m, c
  <2>3. /\ gamepads' \in [D!Indices -> Gamepad] /\ OneEach(gamepads')
        /\ InUse(gamepads') = InUse(gamepads) \ {m}
        /\ Cardinality(InUse(gamepads')) = Cardinality(InUse(gamepads)) - 1
        /\ \A q : /\ HeldBy(gamepads', q) = HeldBy(gamepads, q) \ {m}
                  /\ Cardinality(Claims(gamepads', q)) =
                       IF m \in Claims(gamepads, q) THEN Cardinality(Claims(gamepads, q)) - 1
                                                    ELSE Cardinality(Claims(gamepads, q))
                  /\ Cardinality(HeldBy(gamepads', q)) =
                       IF m \in HeldBy(gamepads, q) THEN Cardinality(HeldBy(gamepads, q)) - 1
                                                    ELSE Cardinality(HeldBy(gamepads, q))
        /\ \A i \in InUse(gamepads') : i # m /\ gamepads'[i] = gamepads[i]
    <3>1. /\ gamepads \in [D!Indices -> Gamepad] /\ OneEach(gamepads) /\ m \in InUse(gamepads)
          /\ gamepads' = Freed(gamepads, m)
      BY <1>0, <2>1, <2>2
    <3> QED BY ONLY <3>1, EntryFreed
  <2>4. activeGamepadMask' = InUse(gamepads') /\ InUse(gamepads') \in SUBSET D!Indices
    BY <1>0, <2>2, <2>3, InUseThere
  <2>5. /\ host' \in HostView /\ host'.mask = InUse(gamepads')
        /\ \A j \in D!Indices \ InUse(gamepads') : host'.buttons[j] = {}
        /\ \A j \in InUse(gamepads') : j # m => host'.buttons[j] = host.buttons[j]
    <3>1. /\ {} \in SUBSET Buttons /\ host \in HostView /\ m \in D!Indices
          /\ InUse(gamepads') \in SUBSET D!Indices
      BY <1>0, <2>1, <2>4
    <3>2. D!Tell(m, InUse(gamepads'), {})
      BY <2>2, <2>4
    <3> QED BY ONLY <3>1, <3>2, Told
  <2>6. MaskInv'
    BY <1>0, <2>3, <2>4, <2>5 DEF MaskInv
  <2>7. \A q \in D!Pads : q = c => m \in Claims(gamepads, q)
    BY <2>1, <2>c DEF Claims
  <2>8. \A q \in D!Pads : /\ Cardinality(Claims(gamepads, q)) \in Nat
                          /\ m \in Claims(gamepads, q) => Cardinality(Claims(gamepads, q)) > 0
    <3> TAKE q \in D!Pads
    <3>1. IsFiniteSet(Claims(gamepads, q)) /\ Cardinality(Claims(gamepads, q)) \in Nat
      BY TableFinite
    <3>2. Cardinality(Claims(gamepads, q)) = 0 => Claims(gamepads, q) = {}
      BY <3>1, FS_EmptySet
    <3> QED BY <3>1, <3>2
  <2>9. \A q \in D!Pads : refs[q] >= Cardinality(Claims(gamepads, q)) /\ refs[q] \in Nat
    BY <1>0 DEF TableInv, RefsInv
  <2>10. refs' \in [D!Pads -> Nat] /\ \A q \in D!Pads : refs'[q] = IF q = c THEN refs[q] - 1 ELSE refs[q]
    <3>1. \A q \in D!Pads : q = c => refs[q] - 1 \in Nat
      BY <2>7, <2>8, <2>9
    <3> QED BY <1>0, <2>2, <3>1
  <2>11. \A q \in D!Pads : refs'[q] >= Cardinality(Claims(gamepads', q))
    <3> TAKE q \in D!Pads
    <3>1. CASE m \in Claims(gamepads, q)
      BY <2>3, <2>8, <2>9, <2>10, <3>1
    <3>2. CASE m \notin Claims(gamepads, q)
      BY <2>3, <2>7, <2>9, <2>10, <3>2
    <3> QED BY <3>1, <3>2
  <2>12. /\ sdl_gamepads >= Cardinality(InUse(gamepads)) /\ Cardinality(InUse(gamepads)) \in Nat
         /\ Cardinality(InUse(gamepads)) > 0
    <3>1. IsFiniteSet(InUse(gamepads)) /\ Cardinality(InUse(gamepads)) \in Nat
      BY TableFinite
    <3>2. Cardinality(InUse(gamepads)) # 0
      BY <2>1, <3>1, FS_EmptySet
    <3> QED BY <3>1, <3>2 DEF TableInv, RefsInv
  <2>13. sdl_gamepads' \in Nat /\ sdl_gamepads' >= Cardinality(InUse(gamepads'))
    BY <1>0, <2>2, <2>3, <2>12
  <2>14. ASSUME sdl_gamepads' = Cardinality(InUse(gamepads'))
         PROVE  /\ \A i \in InUse(gamepads') : gamepads'[i].controller = gamepads'[i].sdl_id
                /\ \A q \in D!Pads : refs'[q] = Cardinality(HeldBy(gamepads', q))
    <3>1. sdl_gamepads = Cardinality(InUse(gamepads))
      BY <1>0, <2>2, <2>3, <2>12, <2>14
    <3>2. /\ \A i \in InUse(gamepads) : gamepads[i].controller = gamepads[i].sdl_id
          /\ \A q \in D!Pads : refs[q] = Cardinality(HeldBy(gamepads, q))
      BY <3>1 DEF TableInv, RefsInv
    <3>3. \A i \in InUse(gamepads') : gamepads'[i].controller = gamepads'[i].sdl_id
      BY <2>3, <3>2
    <3>4. \A q \in D!Pads : m \in HeldBy(gamepads, q) <=> q = c
      BY <2>1, <2>c, <3>2 DEF HeldBy
    <3>5. \A q \in D!Pads : refs'[q] = Cardinality(HeldBy(gamepads', q))
      BY <2>3, <2>10, <3>2, <3>4
    <3> QED BY <3>3, <3>5
  <2>15. RefsInv'
    BY <2>3, <2>11, <2>13, <2>14 DEF RefsInv
  <2>16. TableTyped'
    BY <2>3, <2>5, <2>10, <2>13 DEF TableTyped
  <2> QED BY <2>1, <2>2, <2>c, <2>6, <2>15, <2>16 DEF TableInv
<1> QED BY <1>1, <1>2 DEF D!remove_gamepad

Pressed(bs, e) == IF e.down THEN bs \cup {e.button} ELSE bs \ {e.button}
WithButtons(g, m, bs) == [g EXCEPT ![m].buttons = bs]

LEMMA ButtonsWritten ==
  ASSUME NEW g \in [D!Indices -> Gamepad], OneEach(g), NEW m \in D!Indices, NEW bs \in SUBSET Buttons,
         NEW r, r = WithButtons(g, m, bs)
  PROVE  /\ r \in [D!Indices -> Gamepad] /\ OneEach(r) /\ InUse(r) = InUse(g)
         /\ \A q : HeldBy(r, q) = HeldBy(g, q) /\ Claims(r, q) = Claims(g, q)
         /\ \A i \in D!Indices : r[i].sdl_id = g[i].sdl_id /\ r[i].controller = g[i].controller
         /\ r[m].buttons = bs
         /\ \A i \in D!Indices : i # m => r[i].buttons = g[i].buttons
<1>1. /\ r \in [D!Indices -> Gamepad]
      /\ \A i \in D!Indices : r[i].sdl_id = g[i].sdl_id /\ r[i].controller = g[i].controller
      /\ r[m].buttons = bs
      /\ \A i \in D!Indices : i # m => r[i].buttons = g[i].buttons
  BY DEF WithButtons, Gamepad
<1>2. InUse(r) = InUse(g) /\ InUse(g) \subseteq D!Indices
  BY <1>1 DEF InUse
<1>3. OneEach(r)
  BY <1>1, <1>2 DEF OneEach
<1>4. \A q : HeldBy(r, q) = HeldBy(g, q)
  BY <1>1, <1>2 DEF HeldBy
<1>5. \A q : Claims(r, q) = Claims(g, q)
  BY <1>1, <1>2 DEF Claims
<1> QED BY <1>1, <1>2, <1>3, <1>4, <1>5

LEMMA ButtonKept ==
  ASSUME TableInv, NEW e \in D!PadEvent, e.type = "button", D!HandleButton(e), lpc # "done",
         D!Quits(e) => lpc' = "done"
  PROVE  /\ TableInv'
         /\ UNCHANGED <<refs, sdl_gamepads>>
         /\ \/ HeldBy(gamepads, e.pad) = {} /\ UNCHANGED gamepads
            \/ \E m \in HeldBy(gamepads, e.pad) :
                 gamepads' = WithButtons(gamepads, m, Pressed(gamepads[m].buttons, e))
<1>0. /\ host \in HostView /\ gamepads \in [D!Indices -> Gamepad]
      /\ activeGamepadMask = InUse(gamepads) /\ host.mask = InUse(gamepads)
      /\ \A i \in D!Indices \ InUse(gamepads) : host.buttons[i] = {}
      /\ \A i \in InUse(gamepads) : host.buttons[i] = gamepads[i].buttons
      /\ OneEach(gamepads)
  BY DEF TableInv, TableTyped, MaskInv, RefsInv
<1>1. CASE D!Holding(e.pad) = {}
  <2>1. UNCHANGED D!padVars
    BY <1>1 DEF D!HandleButton
  <2> QED BY <1>1, <2>1, TableNames DEF D!padVars, TableInv, TableTyped, MaskInv, RefsInv
<1>2. CASE D!Holding(e.pad) # {}
  <2> DEFINE m == D!Least(D!Holding(e.pad))
             bs == Pressed(gamepads[m].buttons, e)
  <2>1. m \in HeldBy(gamepads, e.pad) /\ m \in InUse(gamepads) /\ m \in D!Indices
    BY <1>2, TableNames, InUseThere, LeastThere
  <2>2. D!ButtonsAfter(e) = bs
    BY DEF D!ButtonsAfter, Pressed
  <2>3. /\ gamepads' = WithButtons(gamepads, m, bs)
        /\ D!Quits(e) => UNCHANGED host
        /\ ~D!Quits(e) => D!Tell(m, activeGamepadMask, bs)
        /\ UNCHANGED <<refs, activeGamepadMask, sdl_gamepads>>
    BY <1>2, <2>2 DEF D!HandleButton, WithButtons
  <2>4. bs \in SUBSET Buttons
    <3>1. e.button \in Buttons
      BY DEF D!PadEvent
    <3>2. gamepads[m].buttons \in SUBSET Buttons
      BY <1>0, <2>1 DEF Gamepad
    <3> QED BY <3>1, <3>2 DEF Pressed
  <2>b. bs = Pressed(gamepads[m].buttons, e)
    OBVIOUS
  <2> HIDE DEF m, bs
  <2>5. /\ gamepads' \in [D!Indices -> Gamepad] /\ OneEach(gamepads') /\ InUse(gamepads') = InUse(gamepads)
        /\ \A q : HeldBy(gamepads', q) = HeldBy(gamepads, q) /\ Claims(gamepads', q) = Claims(gamepads, q)
        /\ \A i \in D!Indices : gamepads'[i].sdl_id = gamepads[i].sdl_id
                                /\ gamepads'[i].controller = gamepads[i].controller
        /\ gamepads'[m].buttons = bs
        /\ \A i \in D!Indices : i # m => gamepads'[i].buttons = gamepads[i].buttons
    BY <1>0, <2>1, <2>3, <2>4, ButtonsWritten
  <2>6. RefsInv'
    BY <2>3, <2>5, InUseThere DEF RefsInv, TableInv
  <2>7. CASE D!Quits(e)
    <3>1. TableTyped'
      BY <2>3, <2>5, <2>7 DEF TableTyped, TableInv
    <3>2. MaskInv'
      BY <1>0, <2>3, <2>5, <2>7 DEF MaskInv
    <3> QED BY <2>1, <2>3, <2>b, <2>6, <3>1, <3>2 DEF TableInv
  <2>8. CASE ~D!Quits(e)
    <3>1. /\ host' \in HostView /\ host'.mask = InUse(gamepads)
          /\ \A j \in D!Indices \ InUse(gamepads) : host'.buttons[j] = {}
          /\ host'.buttons[m] = bs
          /\ \A j \in InUse(gamepads) : j # m => host'.buttons[j] = host.buttons[j]
      <4>1. D!Tell(m, InUse(gamepads), bs) /\ InUse(gamepads) \in SUBSET D!Indices
        BY <1>0, <2>3, <2>8, InUseThere
      <4>2. host \in HostView
        BY <1>0
      <4> QED BY ONLY <2>1, <2>4, <4>1, <4>2, Told
    <3>2. TableTyped'
      BY <2>3, <2>5, <3>1 DEF TableTyped, TableInv
    <3>3. \A i \in InUse(gamepads) : i \in D!Indices
      BY InUseThere
    <3>4. \A i \in InUse(gamepads) : host'.buttons[i] = gamepads'[i].buttons
      BY <1>0, <2>5, <3>1, <3>3
    <3>5. MaskInv'
      BY <1>0, <2>3, <2>5, <3>1, <3>4 DEF MaskInv
    <3> QED BY <2>1, <2>3, <2>b, <2>6, <3>2, <3>5 DEF TableInv
  <2> QED BY <2>7, <2>8
<1> QED BY <1>1, <1>2

LEMMA SetUpTable ==
  ASSUME NEW n \in D!Pads \cup {0}, D!sdlinput_init(n)
  PROVE  /\ TableInv'
         /\ InUse(gamepads') = {i \in D!Indices : i < n}
         /\ \A i \in InUse(gamepads') : gamepads'[i].sdl_id = i + 1 /\ gamepads'[i].buttons = {}
<1> DEFINE used == {i \in D!Indices : i < n}
<1>0. n \in 0 .. MaxPlugs /\ MaxPlugs \in Nat /\ MAX_GAMEPADS \in Nat /\ n \in Nat
  BY SdlBounds
<1>1. /\ refs' = [p \in D!Pads |-> IF p <= n THEN 1 ELSE 0]
      /\ gamepads' = [i \in D!Indices |->
           IF i >= n THEN D!Unused
           ELSE [sdl_id |-> i + 1, buttons |-> {},
                 controller |-> IF i = 0 /\ n > MAX_GAMEPADS THEN n ELSE i + 1]]
      /\ activeGamepadMask' = used /\ sdl_gamepads' = n
      /\ host' = [mask |-> used, buttons |-> [i \in D!Indices |-> {}]]
  BY DEF D!sdlinput_init
<1>2. ASSUME NEW i \in D!Indices
      PROVE  /\ i >= n => gamepads'[i] = D!Unused
             /\ i < n => gamepads'[i] = [sdl_id |-> i + 1, buttons |-> {},
                                         controller |-> IF i = 0 /\ n > MAX_GAMEPADS THEN n ELSE i + 1]
             /\ i >= n \/ i < n
             /\ i < n => i + 1 \in D!Pads /\ i + 1 # D!None /\ n \in D!Pads
             /\ i \in Nat /\ i < MAX_GAMEPADS
  BY <1>0, <1>1, SdlBounds
<1>3. D!Unused \in Gamepad /\ D!Unused.sdl_id = D!None
  BY DEF D!Unused, Gamepad
<1>4. ASSUME NEW i \in D!Indices
      PROVE  /\ gamepads'[i] \in Gamepad
             /\ gamepads'[i].sdl_id # D!None <=> i < n
             /\ i < n => /\ gamepads'[i].sdl_id = i + 1 /\ gamepads'[i].buttons = {}
                         /\ gamepads'[i].controller = IF i = 0 /\ n > MAX_GAMEPADS THEN n ELSE i + 1
  <2>1. i \in Nat
    BY <1>2
  <2>2. CASE i < n
    <3>1. i + 1 \in D!Pads /\ n \in D!Pads /\ i + 1 # D!None
      BY <1>2, <2>2
    <3>2. gamepads'[i] = [sdl_id |-> i + 1, buttons |-> {},
                          controller |-> IF i = 0 /\ n > MAX_GAMEPADS THEN n ELSE i + 1]
      BY <1>2, <2>2
    <3>3. (IF i = 0 /\ n > MAX_GAMEPADS THEN n ELSE i + 1) \in D!Pads
      BY <3>1
    <3>4. gamepads'[i] \in Gamepad
      BY <3>1, <3>2, <3>3 DEF Gamepad
    <3> QED BY <2>2, <3>1, <3>2, <3>4
  <2>3. CASE i >= n
    <3>1. ~(i < n)
      BY ONLY <1>0, <2>1, <2>3
    <3> QED BY <1>2, <1>3, <2>3, <3>1
  <2>4. i < n \/ i >= n
    BY ONLY <1>0, <2>1
  <2> QED BY <2>2, <2>3, <2>4
<1>5. gamepads' \in [D!Indices -> Gamepad]
  BY <1>1, <1>4
<1>6. InUse(gamepads') = used
  BY <1>4 DEF InUse
<1>7. \A i \in used : /\ gamepads'[i].sdl_id = i + 1 /\ gamepads'[i].buttons = {}
                      /\ gamepads'[i].controller = IF i = 0 /\ n > MAX_GAMEPADS THEN n ELSE i + 1
                      /\ i \in Nat /\ i < n /\ i < MAX_GAMEPADS
  BY <1>2, <1>4
<1>8. refs' \in [D!Pads -> Nat] /\ \A p \in D!Pads : refs'[p] = IF p <= n THEN 1 ELSE 0
  BY <1>1
<1>9. host' \in HostView /\ host'.mask = used /\ \A i \in D!Indices : host'.buttons[i] = {}
  <2>1. [i \in D!Indices |-> {}] \in [D!Indices -> SUBSET Buttons]
    OBVIOUS
  <2>2. used \in SUBSET D!Indices
    OBVIOUS
  <2> HIDE DEF used
  <2>3. \A i \in D!Indices : [j \in D!Indices |-> {}][i] = {}
    OBVIOUS
  <2> QED BY <1>1, <2>1, <2>2, <2>3 DEF HostView
<1>10. IsFiniteSet(used) /\ Cardinality(used) \in Nat
  BY <1>6, TableFinite
<1>11. /\ n <= MAX_GAMEPADS => Cardinality(used) = n
       /\ n > MAX_GAMEPADS => Cardinality(used) < n
  <2>1. CASE n <= MAX_GAMEPADS
    <3>1. used = 0 .. n - 1
      BY <1>0, <2>1, SdlBounds
    <3>2. 0 \in Int /\ n - 1 \in Int
      BY <1>0
    <3>3. Cardinality(0 .. n - 1) = IF 0 > n - 1 THEN 0 ELSE n - 1 - 0 + 1
      BY <3>2, FS_Interval
    <3>4. Cardinality(0 .. n - 1) = n
      BY ONLY <1>0, <3>3
    <3>5. Cardinality(used) = n
      BY ONLY <3>1, <3>4
    <3>6. ~(n > MAX_GAMEPADS)
      BY ONLY <1>0, <2>1
    <3> QED BY ONLY <3>5, <3>6
  <2>2. CASE n > MAX_GAMEPADS
    <3>1. used = 0 .. MAX_GAMEPADS - 1
      BY <1>0, <2>2, SdlBounds
    <3>2. 0 \in Int /\ MAX_GAMEPADS - 1 \in Int
      BY <1>0
    <3>3. Cardinality(0 .. MAX_GAMEPADS - 1) = IF 0 > MAX_GAMEPADS - 1 THEN 0 ELSE MAX_GAMEPADS - 1 - 0 + 1
      BY <3>2, FS_Interval
    <3>4. Cardinality(0 .. MAX_GAMEPADS - 1) < n
      BY ONLY <1>0, <2>2, <3>3
    <3>5. Cardinality(used) < n
      BY ONLY <3>1, <3>4
    <3>6. ~(n <= MAX_GAMEPADS)
      BY ONLY <1>0, <2>2
    <3> QED BY ONLY <3>5, <3>6
  <2>3. n <= MAX_GAMEPADS \/ n > MAX_GAMEPADS
    BY ONLY <1>0
  <2> QED BY ONLY <2>1, <2>2, <2>3
<1> HIDE DEF used
<1>12. OneEach(gamepads')
  BY <1>6, <1>7 DEF OneEach
<1>13. ASSUME NEW p \in D!Pads
       PROVE  /\ \A i, j \in Claims(gamepads', p) : i = j
              /\ p > n => Claims(gamepads', p) = {}
              /\ p \in Nat
  <2>0. p \in Nat /\ p > 0
    BY SdlBounds
  <2>1. ASSUME NEW i \in Claims(gamepads', p)
        PROVE  /\ i \in used /\ (p = i + 1 \/ (i = 0 /\ p = n /\ n > MAX_GAMEPADS))
    BY <1>6, <1>7 DEF Claims
  <2>2. \A i \in Claims(gamepads', p) : ~(p > n)
    BY <1>0, <1>7, <2>0, <2>1
  <2>3. ASSUME NEW i \in Claims(gamepads', p), NEW j \in Claims(gamepads', p) PROVE i = j
    <3>1. /\ i \in Nat /\ i < MAX_GAMEPADS /\ j \in Nat /\ j < MAX_GAMEPADS
          /\ (p = i + 1 \/ (i = 0 /\ p = n /\ n > MAX_GAMEPADS))
          /\ (p = j + 1 \/ (j = 0 /\ p = n /\ n > MAX_GAMEPADS))
      BY <1>7, <2>1
    <3> QED BY <1>0, <2>0, <3>1
  <2> QED BY <2>0, <2>2, <2>3
<1>14. ASSUME NEW S, IsFiniteSet(S), \A i, j \in S : i = j PROVE Cardinality(S) <= 1 /\ Cardinality(S) \in Nat
  <2>1. CASE S = {}
    BY <2>1, FS_EmptySet
  <2>2. CASE S # {}
    <3>1. PICK x \in S : TRUE
      BY <2>2
    <3>2. S = {x}
      BY <1>14, <3>1
    <3> QED BY <3>2, FS_Singleton
  <2> QED BY <2>1, <2>2
<1>15. \A p \in D!Pads : refs'[p] >= Cardinality(Claims(gamepads', p))
  <2> TAKE p \in D!Pads
  <2>1. IsFiniteSet(Claims(gamepads', p))
    BY TableFinite
  <2>2. Cardinality(Claims(gamepads', p)) <= 1 /\ Cardinality(Claims(gamepads', p)) \in Nat
    BY <1>13, <1>14, <2>1
  <2>3. p > n => Cardinality(Claims(gamepads', p)) = 0
    BY <1>13, FS_EmptySet
  <2> QED BY <1>0, <1>8, <1>13, <2>2, <2>3
<1>16. ASSUME n = Cardinality(used)
       PROVE  /\ \A i \in used : gamepads'[i].controller = gamepads'[i].sdl_id
              /\ \A p \in D!Pads : refs'[p] = Cardinality(HeldBy(gamepads', p))
  <2>1. ~(n > MAX_GAMEPADS) /\ n <= MAX_GAMEPADS
    BY <1>0, <1>11, <1>16
  <2>2. \A i \in used : gamepads'[i].controller = gamepads'[i].sdl_id
    BY <1>7, <2>1
  <2>3. ASSUME NEW p \in D!Pads PROVE refs'[p] = Cardinality(HeldBy(gamepads', p))
    <3>1. HeldBy(gamepads', p) \subseteq Claims(gamepads', p) /\ p \in Nat /\ p > 0
      BY TableFinite, SdlBounds
    <3>2. CASE p <= n
      <4>1. p - 1 \in used /\ gamepads'[p - 1].sdl_id = p
        <5>1. p - 1 \in D!Indices /\ p - 1 < n
          BY <1>0, <2>1, <3>1, <3>2, SdlBounds
        <5>2. p - 1 \in used
          BY <5>1 DEF used
        <5> QED BY <1>7, <3>1, <5>2
      <4>2. p - 1 \in HeldBy(gamepads', p)
        BY <1>6, <4>1 DEF HeldBy
      <4>3. HeldBy(gamepads', p) = {p - 1}
        BY <1>13, <3>1, <4>2
      <4> QED BY <1>8, <3>2, <4>3, FS_Singleton
    <3>3. CASE p > n
      <4>1. HeldBy(gamepads', p) = {} /\ ~(p <= n)
        BY <1>0, <1>13, <3>1, <3>3
      <4> QED BY <1>8, <4>1, FS_EmptySet
    <3> QED BY <1>0, <3>1, <3>2, <3>3
  <2> QED BY <2>2, <2>3
<1>17. sdl_gamepads' \in Nat /\ sdl_gamepads' >= Cardinality(InUse(gamepads'))
  <2>1. n >= Cardinality(used)
    BY <1>0, <1>10, <1>11
  <2> QED BY <1>0, <1>1, <1>6, <2>1
<1>18. RefsInv'
  BY <1>1, <1>6, <1>12, <1>15, <1>16, <1>17 DEF RefsInv
<1>19. MaskInv'
  <2>1. \A i \in used : host'.buttons[i] = gamepads'[i].buttons
    <3>1. used \subseteq D!Indices
      BY DEF used
    <3> QED BY <1>7, <1>9, <3>1
  <2> QED BY <1>1, <1>6, <1>9, <2>1 DEF MaskInv
<1>20. TableTyped'
  BY <1>5, <1>8, <1>9, <1>17 DEF TableTyped
<1>21. \A i \in InUse(gamepads') : gamepads'[i].sdl_id = i + 1 /\ gamepads'[i].buttons = {}
  BY <1>6, <1>7
<1> QED BY <1>6, <1>18, <1>19, <1>20, <1>21 DEF TableInv, used

-----------------------------------------------------------------------------
(* What the queue promises about the gamepads.                             *)

Removed(p) == [type |-> "removed", pad |-> p]
ButtonsOf(p) == {e \in D!PadEvent : e.type = "button" /\ e.pad = p}

\* The buttons that are held are those the program knows, but for one event that waits.
Matches(q, p, down, known) ==
  \/ \E e \in ButtonsOf(p) : Has(q, e) /\ down = Pressed(known, e)
  \/ down = known /\ \A e \in ButtonsOf(p) : ~Has(q, e)

Announced ==
  /\ AddedOnce(queue)
  /\ \A p \in D!Pads : Has(queue, D!Added(p)) => p \in DOMAIN attached

Left == \A p \in D!Pads : Has(queue, Removed(p)) => p <= plugs /\ p \notin DOMAIN attached

Used ==
  /\ UserOnce(queue)
  /\ \A p \in D!Pads : \A e \in ButtonsOf(p) : Has(queue, e) => p <= plugs

\* Each entry is that of a gamepad that is there, unless its removal waits.
Followed ==
  lpc # "done" => \A i \in InUse(gamepads) : LET p == gamepads[i].sdl_id IN
    \/ Has(queue, Removed(p))
    \/ p \in DOMAIN attached /\ Matches(queue, p, attached[p], gamepads[i].buttons)

\* Each gamepad has an entry, or its announcement waits.
Listed ==
  \A p \in D!Pads : p \in DOMAIN attached =>
    \/ sdl_gamepads # Cardinality(InUse(gamepads))
    \/ HeldBy(gamepads, p) # {}
    \/ Has(queue, D!Added(p))

\* A gamepad that has no entry yet was not used, or was opened by sdlinput_init when the
\* table was full, and its announcement is read before the table has room.
Unseen(p) == refs[p] = 0 /\ attached[p] = {} /\ \A e \in ButtonsOf(p) : ~Has(queue, e)
Surplus(p) == refs[p] > 0 /\ InUse(gamepads) = D!Indices /\ Early(queue, p)

Waiting ==
  \A p \in D!Pads : Has(queue, D!Added(p)) /\ HeldBy(gamepads, p) = {} => Unseen(p) \/ Surplus(p)

NotYet == \A p \in D!Pads : p > plugs => refs[p] = 0 /\ HeldBy(gamepads, p) = {}

Promises == Announced /\ Left /\ Used /\ Followed /\ Listed /\ Waiting /\ NotYet
QueueInv == ~lost => Promises

LEMMA PadEvents ==
  ASSUME NEW p \in D!Pads
  PROVE  /\ D!Added(p) \in D!PadEvent /\ D!Added(p).type = "added" /\ D!Added(p).pad = p
         /\ Removed(p) \in D!PadEvent /\ Removed(p).type = "removed" /\ Removed(p).pad = p
         /\ \A e \in ButtonsOf(p) : e \in D!PadEvent /\ e.type = "button" /\ e.pad = p
         /\ \A e \in D!PadEvent : e.type = "added" => e = D!Added(e.pad) /\ e.pad \in D!Pads
         /\ \A e \in D!PadEvent : e.type = "removed" => e = Removed(e.pad) /\ e.pad \in D!Pads
         /\ \A e \in D!PadEvent : e.type = "button" => e \in ButtonsOf(e.pad) /\ e.pad \in D!Pads
BY DEF D!Added, Removed, D!PadEvent, ButtonsOf

LEMMA EntryPad ==
  ASSUME TableInv, NEW i \in InUse(gamepads)
  PROVE  gamepads[i].sdl_id \in D!Pads /\ i \in D!Indices /\ i \in HeldBy(gamepads, gamepads[i].sdl_id)
BY DEF TableInv, TableTyped, InUse, Gamepad, HeldBy

\* Events that are none of a gamepad's leave the promises alone.
LEMMA PromisesKept ==
  ASSUME TableInv, Promises, UNCHANGED <<plugs, attached, refs, gamepads, sdl_gamepads>>,
         lpc = "done" => lpc' = "done",
         NEW q, q = queue',
         \A e \in D!PadEvent : Has(q, e) <=> Has(queue, e),
         AddedOnce(q), UserOnce(q), \A p : Early(queue, p) => Early(q, p)
  PROVE  Promises'
<1>1. Announced'
  BY PadEvents DEF Promises, Announced
<1>2. Left'
  BY PadEvents DEF Promises, Left
<1>3. Used'
  BY PadEvents DEF Promises, Used
<1>4. Followed'
  <2> SUFFICES ASSUME lpc # "done", NEW i \in InUse(gamepads)
               PROVE  LET p == gamepads[i].sdl_id IN
                        \/ Has(q, Removed(p))
                        \/ p \in DOMAIN attached /\ Matches(q, p, attached[p], gamepads[i].buttons)
    BY DEF Followed
  <2> DEFINE p == gamepads[i].sdl_id
  <2>1. p \in D!Pads
    BY EntryPad
  <2>2. \/ Has(queue, Removed(p))
        \/ p \in DOMAIN attached /\ Matches(queue, p, attached[p], gamepads[i].buttons)
    BY DEF Promises, Followed
  <2> HIDE DEF p
  <2>3. Matches(queue, p, attached[p], gamepads[i].buttons) => Matches(q, p, attached[p], gamepads[i].buttons)
    BY <2>1, PadEvents DEF Matches
  <2>4. Has(queue, Removed(p)) => Has(q, Removed(p))
    BY <2>1, PadEvents
  <2> QED BY <2>2, <2>3, <2>4 DEF p
<1>5. Listed'
  <2>1. \A p \in D!Pads : Has(q, D!Added(p)) <=> Has(queue, D!Added(p))
    BY PadEvents
  <2> QED BY <2>1 DEF Promises, Listed
<1>6. Waiting'
  BY PadEvents DEF Promises, Waiting, Unseen, Surplus
<1>7. NotYet'
  BY DEF Promises, NotYet
<1> QED BY <1>1, <1>2, <1>3, <1>4, <1>5, <1>6, <1>7 DEF Promises

\* The first event is read: what waits behind it.
LEMMA EventRead ==
  ASSUME queue \in Seq(D!Event), queue # <<>>, AddedOnce(queue), UserOnce(queue), NEW q, q = Tail(queue)
  PROVE  /\ Has(queue, Head(queue))
         /\ \A e : Has(q, e) => Has(queue, e)
         /\ \A e : Has(queue, e) => Has(q, e) \/ e = Head(queue)
         /\ AddedOnce(q) /\ UserOnce(q)
         /\ Head(queue).type = "added" => ~Has(q, Head(queue))
         /\ Head(queue).type \in {"input", "button"} => ByUser(q) = {}
         /\ \A p : Early(queue, p) => Head(queue).type # "removed"
         /\ \A p : Early(queue, p) /\ Head(queue) # D!Added(p) => Early(q, p)
<1>1. Omits(queue, 1, q) /\ Head(queue) = queue[1]
  BY TailOmits
<1>2. /\ \A e : Has(q, e) => Has(queue, e)
      /\ \A e : Has(queue, e) => Has(q, e) \/ e = queue[1]
      /\ Has(queue, queue[1])
  BY <1>1, HasOmits
<1>3. 1 \in DOMAIN queue
  OBVIOUS
<1>4. /\ AddedOnce(q) /\ UserOnce(q)
      /\ queue[1].type = "added" => ~Has(q, queue[1])
      /\ 1 \in ByUser(queue) => ByUser(q) = {}
  BY <1>1, OnceOmits
<1>5. queue[1].type \in {"input", "button"} => 1 \in ByUser(queue)
  BY <1>3 DEF ByUser
<1>6. \A p : Early(queue, p) => Head(queue).type # "removed"
  BY EarlyHead
<1>7. \A p : Early(queue, p) /\ queue[1] # D!Added(p) => Early(q, p)
  BY <1>1, EarlyOmits
<1> QED BY <1>1, <1>2, <1>4, <1>5, <1>6, <1>7

LEMMA NoButtons ==
  ASSUME NEW q, ByUser(q) = {}, NEW p, NEW e \in ButtonsOf(p)
  PROVE  ~Has(q, e)
BY DEF ByUser, Has, ButtonsOf

LEMMA OneButton ==
  ASSUME NEW q, UserOnce(q), NEW p, NEW o, NEW d \in ButtonsOf(p), NEW e \in ButtonsOf(o), Has(q, d), Has(q, e)
  PROVE  d = e
<1>1. PICK j \in DOMAIN q : q[j] = d
  BY DEF Has
<1>2. PICK k \in DOMAIN q : q[k] = e
  BY DEF Has
<1>3. j \in ByUser(q) /\ k \in ByUser(q)
  BY <1>1, <1>2 DEF ByUser, ButtonsOf
<1> QED BY <1>1, <1>2, <1>3 DEF UserOnce

LEMMA MatchesKept ==
  ASSUME NEW q, NEW r, NEW p, NEW down, NEW known, Matches(q, p, down, known),
         \A e \in ButtonsOf(p) : Has(r, e) <=> Has(q, e)
  PROVE  Matches(r, p, down, known)
BY DEF Matches

LEMMA AddRead ==
  ASSUME TableInv, Promises, queue \in Seq(D!Event), queue # <<>>, queue' = Tail(queue),
         NEW p \in D!Pads, Head(queue) = D!Added(p), D!add_gamepad(p),
         UNCHANGED <<plugs, attached>>, plugs \in Nat, DOMAIN attached \subseteq 1 .. plugs,
         lpc # "done", lpc' # "done"
  PROVE  Promises'
<1> DEFINE q == Tail(queue)
<1>q. q = Tail(queue) /\ queue' = q
  OBVIOUS
<1> HIDE DEF q
<1>1. /\ Has(queue, D!Added(p)) /\ ~Has(q, D!Added(p))
      /\ \A e : Has(q, e) => Has(queue, e)
      /\ \A e : Has(queue, e) => Has(q, e) \/ e = D!Added(p)
      /\ AddedOnce(q) /\ UserOnce(q)
      /\ \A o : Early(queue, o) /\ D!Added(p) # D!Added(o) => Early(q, o)
  <2>1. AddedOnce(queue) /\ UserOnce(queue) /\ Head(queue).type = "added"
    BY PadEvents DEF Promises, Announced, Used
  <2>2. queue \in Seq(D!Event) /\ queue # <<>> /\ Head(queue) = D!Added(p)
    OBVIOUS
  <2>3. /\ Has(queue, Head(queue)) /\ ~Has(q, Head(queue))
        /\ \A e : Has(q, e) => Has(queue, e)
        /\ \A e : Has(queue, e) => Has(q, e) \/ e = Head(queue)
        /\ AddedOnce(q) /\ UserOnce(q)
        /\ \A o : Early(queue, o) /\ Head(queue) # D!Added(o) => Early(q, o)
    BY ONLY <1>q, <2>1, <2>2, EventRead
  <2> QED BY ONLY <2>2, <2>3
<1>2. \A o \in D!Pads :
        /\ Has(q, Removed(o)) <=> Has(queue, Removed(o))
        /\ \A e \in ButtonsOf(o) : Has(q, e) <=> Has(queue, e)
        /\ o # p => (Has(q, D!Added(o)) <=> Has(queue, D!Added(o))) /\ D!Added(p) # D!Added(o)
  <2>1. \A o \in D!Pads : D!Added(p) # Removed(o) /\ (D!Added(p) = D!Added(o) <=> o = p)
    BY PadEvents
  <2>2. \A o \in D!Pads : \A e \in ButtonsOf(o) : e # D!Added(p)
    BY PadEvents
  <2> QED BY <1>1, <2>1, <2>2
<1>3. \/ /\ HeldBy(gamepads, p) # {} /\ UNCHANGED <<refs, gamepads, sdl_gamepads>>
      \/ /\ HeldBy(gamepads, p) = {} /\ refs' = [refs EXCEPT ![p] = @ + 1]
         /\ \/ \E m \in D!Indices \ InUse(gamepads) : gamepads' = Taken(gamepads, m, p)
            \/ InUse(gamepads) = D!Indices /\ gamepads' = Shared(gamepads, p)
         /\ sdl_gamepads' = sdl_gamepads + 1
  BY AddKept
<1>4. /\ gamepads \in [D!Indices -> Gamepad] /\ OneEach(gamepads) /\ refs \in [D!Pads -> Nat]
      /\ sdl_gamepads \in Nat /\ sdl_gamepads >= Cardinality(InUse(gamepads))
      /\ Cardinality(InUse(gamepads)) \in Nat
  BY TableFinite DEF TableInv, TableTyped, RefsInv
<1>5. p \in DOMAIN attached /\ (HeldBy(gamepads, p) = {} => Unseen(p) \/ Surplus(p)) /\ ~(p > plugs)
  <2>1. p \in DOMAIN attached /\ (HeldBy(gamepads, p) = {} => Unseen(p) \/ Surplus(p))
    BY <1>1 DEF Promises, Announced, Waiting
  <2>2. p > plugs => HeldBy(gamepads, p) = {} /\ refs[p] = 0
    BY DEF Promises, NotYet
  <2>3. p \in 1 .. plugs /\ 1 \in Int
    BY <2>1
  <2>4. ~(p > plugs)
    BY <2>3, SdlBounds
  <2> QED BY <2>1, <2>4
<1>6. Announced' /\ Left' /\ Used'
  <2>1. Announced'
    BY <1>q, <1>1 DEF Promises, Announced
  <2>2. Left'
    BY <1>q, <1>1 DEF Promises, Left
  <2>3. Used'
    BY <1>q, <1>1 DEF Promises, Used
  <2> QED BY <2>1, <2>2, <2>3
<1>7. \A i \in InUse(gamepads) :
        \/ Has(q, Removed(gamepads[i].sdl_id))
        \/ /\ gamepads[i].sdl_id \in DOMAIN attached
           /\ Matches(q, gamepads[i].sdl_id, attached[gamepads[i].sdl_id], gamepads[i].buttons)
  <2> TAKE i \in InUse(gamepads)
  <2>1. gamepads[i].sdl_id \in D!Pads
    BY EntryPad
  <2>2. \/ Has(queue, Removed(gamepads[i].sdl_id))
        \/ /\ gamepads[i].sdl_id \in DOMAIN attached
           /\ Matches(queue, gamepads[i].sdl_id, attached[gamepads[i].sdl_id], gamepads[i].buttons)
    BY DEF Promises, Followed
  <2> QED BY <1>2, <2>1, <2>2, MatchesKept
<1>8. CASE HeldBy(gamepads, p) # {} /\ UNCHANGED <<refs, gamepads, sdl_gamepads>>
  <2>1. Followed'
    BY <1>q, <1>7, <1>8 DEF Followed
  <2>2. Listed'
    BY <1>q, <1>2, <1>8 DEF Promises, Listed
  <2>3. Waiting'
    BY <1>q, <1>1, <1>2, <1>8 DEF Promises, Waiting, Unseen, Surplus
  <2>4. NotYet'
    BY <1>8 DEF Promises, NotYet
  <2> QED BY <1>6, <2>1, <2>2, <2>3, <2>4 DEF Promises
<1>9. ASSUME HeldBy(gamepads, p) = {}, refs' = [refs EXCEPT ![p] = @ + 1],
             NEW m \in D!Indices \ InUse(gamepads), gamepads' = Taken(gamepads, m, p),
             sdl_gamepads' = sdl_gamepads + 1
      PROVE  Promises'
  <2>1. /\ gamepads' \in [D!Indices -> Gamepad]
        /\ InUse(gamepads') = InUse(gamepads) \cup {m}
        /\ Cardinality(InUse(gamepads')) = Cardinality(InUse(gamepads)) + 1
        /\ HeldBy(gamepads', p) = {m}
        /\ \A o \in D!Pads : o # p => HeldBy(gamepads', o) = HeldBy(gamepads, o)
        /\ gamepads'[m] = [sdl_id |-> p, controller |-> p, buttons |-> {}]
        /\ \A i \in InUse(gamepads) : i # m /\ gamepads'[i] = gamepads[i]
    BY ONLY <1>4, <1>9, p \in D!Pads, EntryTaken
  <2>2. \A o \in D!Pads : o # p => refs'[o] = refs[o]
    BY <1>4, <1>9
  <2>3. Unseen(p)
    BY <1>5, <1>9 DEF Surplus
  <2>4. Matches(q, p, attached[p], {})
    BY <1>2, <2>3 DEF Matches, Unseen
  <2>5. ASSUME NEW i \in InUse(gamepads')
        PROVE  \/ Has(q, Removed(gamepads'[i].sdl_id))
               \/ /\ gamepads'[i].sdl_id \in DOMAIN attached
                  /\ Matches(q, gamepads'[i].sdl_id, attached[gamepads'[i].sdl_id], gamepads'[i].buttons)
    <3>1. CASE i = m
      <4>1. gamepads'[i].sdl_id = p /\ gamepads'[i].buttons = {}
        BY <2>1, <3>1
      <4> QED BY <1>5, <2>4, <4>1
    <3>2. CASE i \in InUse(gamepads)
      <4>1. gamepads'[i] = gamepads[i]
        BY <2>1, <3>2
      <4> QED BY <1>7, <3>2, <4>1
    <3> QED BY <2>1, <3>1, <3>2
  <2>6. Followed'
    BY <1>q, <2>5 DEF Followed
  <2>7. Listed'
    <3> SUFFICES ASSUME NEW o \in D!Pads, o \in DOMAIN attached
                 PROVE  \/ sdl_gamepads' # Cardinality(InUse(gamepads'))
                        \/ HeldBy(gamepads', o) # {} \/ Has(q, D!Added(o))
      BY <1>q DEF Listed
    <3>1. \/ sdl_gamepads # Cardinality(InUse(gamepads))
          \/ HeldBy(gamepads, o) # {} \/ Has(queue, D!Added(o))
      BY DEF Promises, Listed
    <3>2. sdl_gamepads # Cardinality(InUse(gamepads)) => sdl_gamepads' # Cardinality(InUse(gamepads'))
      BY <1>4, <1>9, <2>1
    <3>3. CASE o = p
      BY <2>1, <3>3
    <3>4. CASE o # p
      BY <1>2, <2>1, <3>1, <3>2, <3>4
    <3> QED BY <3>3, <3>4
  <2>8. Waiting'
    <3> SUFFICES ASSUME NEW o \in D!Pads, Has(q, D!Added(o)), HeldBy(gamepads', o) = {}
                 PROVE  (Unseen(o) \/ Surplus(o))'
      BY <1>q DEF Waiting
    <3>1. o # p
      BY <1>1
    <3>2. Has(queue, D!Added(o)) /\ HeldBy(gamepads, o) = {}
      BY <1>1, <2>1, <3>1
    <3>3. Unseen(o)
      <4>1. InUse(gamepads) # D!Indices
        BY <1>9
      <4> QED BY <3>2, <4>1 DEF Promises, Waiting, Surplus
    <3> QED BY <1>q, <1>2, <2>2, <3>1, <3>3 DEF Unseen
  <2>9. NotYet'
    BY <1>5, <2>1, <2>2 DEF Promises, NotYet
  <2> QED BY <1>6, <2>6, <2>7, <2>8, <2>9 DEF Promises
<1>10. ASSUME HeldBy(gamepads, p) = {}, refs' = [refs EXCEPT ![p] = @ + 1],
              InUse(gamepads) = D!Indices, gamepads' = Shared(gamepads, p), sdl_gamepads' = sdl_gamepads + 1
       PROVE  Promises'
  <2>1. /\ gamepads' \in [D!Indices -> Gamepad]
        /\ InUse(gamepads') = InUse(gamepads)
        /\ \A o : HeldBy(gamepads', o) = HeldBy(gamepads, o)
        /\ \A i \in D!Indices : gamepads'[i].buttons = gamepads[i].buttons /\ gamepads'[i].sdl_id = gamepads[i].sdl_id
    BY ONLY <1>4, <1>10, p \in D!Pads, EntryShared
  <2>2. \A o \in D!Pads : o # p => refs'[o] = refs[o]
    BY <1>4, <1>10
  <2>3. Followed'
    BY <1>q, <1>7, <1>10, <2>1 DEF Followed
  <2>4. Listed'
    <3>1. sdl_gamepads' # Cardinality(InUse(gamepads'))
      BY <1>4, <1>10, <2>1
    <3> QED BY <3>1 DEF Listed
  <2>5. Waiting'
    <3> SUFFICES ASSUME NEW o \in D!Pads, Has(q, D!Added(o)), HeldBy(gamepads', o) = {}
                 PROVE  (Unseen(o) \/ Surplus(o))'
      BY <1>q DEF Waiting
    <3>1. o # p
      BY <1>1
    <3>2. Has(queue, D!Added(o)) /\ HeldBy(gamepads, o) = {}
      BY <1>1, <2>1, <3>1
    <3>3. Unseen(o) \/ Surplus(o)
      BY <3>2 DEF Promises, Waiting
    <3>4. Unseen(o) => Unseen(o)'
      BY <1>q, <1>2, <2>2, <3>1 DEF Unseen
    <3>5. Surplus(o) => Surplus(o)'
      BY <1>q, <1>1, <1>2, <1>10, <2>1, <2>2, <3>1 DEF Surplus
    <3> QED BY <3>3, <3>4, <3>5
  <2>6. NotYet'
    BY <1>5, <2>1, <2>2 DEF Promises, NotYet
  <2> QED BY <1>6, <2>3, <2>4, <2>5, <2>6 DEF Promises
<1> QED BY <1>3, <1>8, <1>9, <1>10

LEMMA RemoveRead ==
  ASSUME TableInv, Promises, queue \in Seq(D!Event), queue # <<>>, queue' = Tail(queue),
         NEW p \in D!Pads, Head(queue) = Removed(p), D!remove_gamepad(p),
         UNCHANGED <<plugs, attached>>, lpc # "done", lpc' # "done"
  PROVE  Promises'
<1> DEFINE q == Tail(queue)
<1>q. q = Tail(queue) /\ queue' = q
  OBVIOUS
<1> HIDE DEF q
<1>1. /\ Has(queue, Removed(p))
      /\ \A e : Has(q, e) => Has(queue, e)
      /\ \A e : Has(queue, e) => Has(q, e) \/ e = Removed(p)
      /\ AddedOnce(q) /\ UserOnce(q)
      /\ \A o : ~Early(queue, o)
  <2>1. AddedOnce(queue) /\ UserOnce(queue) /\ Head(queue).type = "removed"
    BY PadEvents DEF Promises, Announced, Used
  <2>2. queue \in Seq(D!Event) /\ queue # <<>> /\ Head(queue) = Removed(p)
    OBVIOUS
  <2>3. /\ Has(queue, Head(queue))
        /\ \A e : Has(q, e) => Has(queue, e)
        /\ \A e : Has(queue, e) => Has(q, e) \/ e = Head(queue)
        /\ AddedOnce(q) /\ UserOnce(q)
        /\ \A o : Early(queue, o) => Head(queue).type # "removed"
    BY ONLY <1>q, <2>1, <2>2, EventRead
  <2> QED BY ONLY <2>1, <2>2, <2>3
<1>2. \A o \in D!Pads :
        /\ o # p => (Has(q, Removed(o)) <=> Has(queue, Removed(o)))
        /\ \A e \in ButtonsOf(o) : Has(q, e) <=> Has(queue, e)
        /\ Has(q, D!Added(o)) <=> Has(queue, D!Added(o))
  <2>1. \A o \in D!Pads : Removed(p) # D!Added(o) /\ (Removed(p) = Removed(o) <=> o = p)
    BY PadEvents
  <2>2. \A o \in D!Pads : \A e \in ButtonsOf(o) : e # Removed(p)
    BY PadEvents
  <2> QED BY <1>1, <2>1, <2>2
<1>3. \/ HeldBy(gamepads, p) = {} /\ UNCHANGED <<refs, gamepads, sdl_gamepads>>
      \/ \E m \in HeldBy(gamepads, p) :
           /\ gamepads' = Freed(gamepads, m)
           /\ refs' = [refs EXCEPT ![gamepads[m].controller] = @ - 1]
           /\ sdl_gamepads' = sdl_gamepads - 1
  BY RemoveKept
<1>4. /\ gamepads \in [D!Indices -> Gamepad] /\ OneEach(gamepads) /\ refs \in [D!Pads -> Nat]
      /\ sdl_gamepads \in Nat /\ sdl_gamepads >= Cardinality(InUse(gamepads))
      /\ Cardinality(InUse(gamepads)) \in Nat
      /\ \A o \in D!Pads : refs[o] >= Cardinality(Claims(gamepads, o))
  BY TableFinite DEF TableInv, TableTyped, RefsInv
<1>5. p \notin DOMAIN attached
  BY <1>1 DEF Promises, Left
<1>6. Announced' /\ Left' /\ Used'
  <2>1. Announced'
    BY <1>q, <1>1 DEF Promises, Announced
  <2>2. Left'
    BY <1>q, <1>1 DEF Promises, Left
  <2>3. Used'
    BY <1>q, <1>1 DEF Promises, Used
  <2> QED BY <2>1, <2>2, <2>3
<1>7. ASSUME NEW i \in InUse(gamepads), gamepads[i].sdl_id # p
      PROVE  \/ Has(q, Removed(gamepads[i].sdl_id))
             \/ /\ gamepads[i].sdl_id \in DOMAIN attached
                /\ Matches(q, gamepads[i].sdl_id, attached[gamepads[i].sdl_id], gamepads[i].buttons)
  <2>1. gamepads[i].sdl_id \in D!Pads
    BY EntryPad
  <2>2. \/ Has(queue, Removed(gamepads[i].sdl_id))
        \/ /\ gamepads[i].sdl_id \in DOMAIN attached
           /\ Matches(queue, gamepads[i].sdl_id, attached[gamepads[i].sdl_id], gamepads[i].buttons)
    BY DEF Promises, Followed
  <2> QED BY <1>2, <1>7, <2>1, <2>2, MatchesKept
<1>8. CASE HeldBy(gamepads, p) = {} /\ UNCHANGED <<refs, gamepads, sdl_gamepads>>
  <2>1. \A i \in InUse(gamepads) : gamepads[i].sdl_id # p
    BY <1>8 DEF HeldBy
  <2>2. Followed'
    BY <1>q, <1>7, <1>8, <2>1 DEF Followed
  <2>3. Listed'
    BY <1>q, <1>2, <1>8 DEF Promises, Listed
  <2>4. Waiting'
    BY <1>q, <1>1, <1>2, <1>8 DEF Promises, Waiting, Unseen, Surplus
  <2>5. NotYet'
    BY <1>8 DEF Promises, NotYet
  <2> QED BY <1>6, <2>2, <2>3, <2>4, <2>5 DEF Promises
<1>9. ASSUME NEW m \in HeldBy(gamepads, p), gamepads' = Freed(gamepads, m),
             refs' = [refs EXCEPT ![gamepads[m].controller] = @ - 1], sdl_gamepads' = sdl_gamepads - 1
      PROVE  Promises'
  <2>0. m \in InUse(gamepads) /\ gamepads[m].sdl_id = p
    BY DEF HeldBy
  <2>1. /\ InUse(gamepads') = InUse(gamepads) \ {m}
        /\ Cardinality(InUse(gamepads')) = Cardinality(InUse(gamepads)) - 1
        /\ \A o : HeldBy(gamepads', o) = HeldBy(gamepads, o) \ {m}
        /\ \A i \in InUse(gamepads') : i # m /\ gamepads'[i] = gamepads[i]
    BY ONLY <1>4, <1>9, <2>0, EntryFreed
  <2>2. \A o \in D!Pads : o # p => HeldBy(gamepads', o) = HeldBy(gamepads, o)
    BY <2>0, <2>1 DEF HeldBy
  <2>3. \A o \in D!Pads : refs[o] = 0 => refs'[o] = 0
    <3> SUFFICES ASSUME NEW o \in D!Pads, refs[o] = 0 PROVE refs'[o] = 0
      OBVIOUS
    <3>1. IsFiniteSet(Claims(gamepads, o)) /\ Cardinality(Claims(gamepads, o)) = 0
      BY <1>4, TableFinite
    <3>2. Claims(gamepads, o) = {}
      BY <3>1, FS_EmptySet
    <3>3. gamepads[m].controller # o
      BY <2>0, <3>2 DEF Claims
    <3> QED BY <1>4, <1>9, <3>3
  <2>4. \A i \in InUse(gamepads') : i \in InUse(gamepads) /\ gamepads'[i] = gamepads[i] /\ gamepads[i].sdl_id # p
    BY <1>4, <2>0, <2>1 DEF OneEach
  <2>5. Followed'
    BY <1>q, <1>7, <2>4 DEF Followed
  <2>6. Listed'
    <3>1. sdl_gamepads # Cardinality(InUse(gamepads)) => sdl_gamepads' # Cardinality(InUse(gamepads'))
      BY <1>4, <1>9, <2>1
    <3> QED BY <1>q, <1>2, <1>5, <2>2, <3>1 DEF Promises, Listed
  <2>7. Waiting'
    <3> SUFFICES ASSUME NEW o \in D!Pads, Has(q, D!Added(o)), HeldBy(gamepads', o) = {}
                 PROVE  Unseen(o)'
      BY <1>q DEF Waiting
    <3>1. Has(queue, D!Added(o))
      BY <1>1
    <3>2. o # p
      BY <1>5, <3>1 DEF Promises, Announced
    <3>3. Unseen(o)
      BY <1>1, <2>2, <3>1, <3>2 DEF Promises, Waiting, Surplus
    <3> QED BY <1>q, <1>2, <2>3, <3>3 DEF Unseen
  <2>8. NotYet'
    BY <2>1, <2>3 DEF Promises, NotYet
  <2> QED BY <1>6, <2>5, <2>6, <2>7, <2>8 DEF Promises
<1> QED BY <1>3, <1>8, <1>9

LEMMA ButtonRead ==
  ASSUME TableInv, Promises, queue \in Seq(D!Event), queue # <<>>, queue' = Tail(queue),
         NEW p \in D!Pads, NEW d \in ButtonsOf(p), Head(queue) = d, D!HandleButton(d),
         UNCHANGED <<plugs, attached>>, lpc # "done", lpc' = IF D!Quits(d) THEN "done" ELSE "wait"
  PROVE  Promises'
<1> DEFINE q == Tail(queue)
<1>q. q = Tail(queue) /\ queue' = q
  OBVIOUS
<1> HIDE DEF q
<1>0. d \in D!PadEvent /\ d.type = "button" /\ d.pad = p /\ d # D!Added(p)
  BY PadEvents
<1>1. /\ Has(queue, d)
      /\ \A e : Has(q, e) => Has(queue, e)
      /\ \A e : Has(queue, e) => Has(q, e) \/ e = d
      /\ AddedOnce(q) /\ UserOnce(q) /\ ByUser(q) = {}
      /\ \A o : Early(queue, o) /\ d # D!Added(o) => Early(q, o)
  <2>1. AddedOnce(queue) /\ UserOnce(queue) /\ Head(queue).type \in {"input", "button"}
    BY <1>0 DEF Promises, Announced, Used
  <2>2. queue \in Seq(D!Event) /\ queue # <<>> /\ Head(queue) = d
    OBVIOUS
  <2>3. /\ Has(queue, Head(queue))
        /\ \A e : Has(q, e) => Has(queue, e)
        /\ \A e : Has(queue, e) => Has(q, e) \/ e = Head(queue)
        /\ AddedOnce(q) /\ UserOnce(q) /\ ByUser(q) = {}
        /\ \A o : Early(queue, o) /\ Head(queue) # D!Added(o) => Early(q, o)
    BY ONLY <1>q, <2>1, <2>2, EventRead
  <2> QED BY ONLY <2>2, <2>3
<1>2. \A o \in D!Pads :
        /\ d # D!Added(o)
        /\ Has(q, Removed(o)) <=> Has(queue, Removed(o))
        /\ Has(q, D!Added(o)) <=> Has(queue, D!Added(o))
        /\ \A e \in ButtonsOf(o) : ~Has(q, e)
        /\ \A e \in ButtonsOf(o) : Has(queue, e) => e = d
  <2>1. \A o \in D!Pads : Removed(o) # d /\ D!Added(o) # d
    BY <1>0, PadEvents
  <2>2. \A o \in D!Pads : \A e \in ButtonsOf(o) : ~Has(q, e)
    BY <1>1, NoButtons
  <2> QED BY <1>1, <2>1, <2>2
<1>3. /\ UNCHANGED <<refs, sdl_gamepads>>
      /\ \/ HeldBy(gamepads, p) = {} /\ UNCHANGED gamepads
         \/ \E m \in HeldBy(gamepads, p) :
              gamepads' = WithButtons(gamepads, m, Pressed(gamepads[m].buttons, d))
  <2>1. D!Quits(d) => lpc' = "done"
    OBVIOUS
  <2> QED BY <1>0, <2>1, ButtonKept
<1>4. gamepads \in [D!Indices -> Gamepad] /\ OneEach(gamepads)
  BY DEF TableInv, TableTyped, RefsInv
<1>5. Announced' /\ Left' /\ Used'
  <2>1. Announced'
    BY <1>q, <1>1 DEF Promises, Announced
  <2>2. Left'
    BY <1>q, <1>1 DEF Promises, Left
  <2>3. Used'
    BY <1>q, <1>1 DEF Promises, Used
  <2> QED BY <2>1, <2>2, <2>3
<1>6. ASSUME NEW i \in InUse(gamepads)
      PROVE  LET o == gamepads[i].sdl_id IN
               \/ Has(q, Removed(o))
               \/ /\ o \in DOMAIN attached
                  /\ o # p => attached[o] = gamepads[i].buttons
                  /\ o = p => attached[o] = Pressed(gamepads[i].buttons, d)
  <2> DEFINE o == gamepads[i].sdl_id
  <2>1. o \in D!Pads
    BY EntryPad
  <2>2. Has(queue, Removed(o)) \/ (o \in DOMAIN attached /\ Matches(queue, o, attached[o], gamepads[i].buttons))
    BY DEF Promises, Followed
  <2> HIDE DEF o
  <2>3. \A e \in ButtonsOf(o) : e.pad = o
    BY PadEvents DEF ButtonsOf
  <2>4. CASE o # p
    <3>1. \A e \in ButtonsOf(o) : ~Has(queue, e)
      BY <1>0, <1>2, <2>1, <2>3, <2>4
    <3> QED BY <1>2, <2>1, <2>2, <2>4, <3>1 DEF Matches, o
  <2>5. CASE o = p
    <3>1. Matches(queue, o, attached[o], gamepads[i].buttons) => attached[o] = Pressed(gamepads[i].buttons, d)
      BY <1>1, <1>2, <2>1, <2>5 DEF Matches
    <3> QED BY <1>2, <2>1, <2>2, <2>5, <3>1 DEF o
  <2> QED BY <2>4, <2>5
<1>7. CASE HeldBy(gamepads, p) = {} /\ UNCHANGED gamepads
  <2>1. ASSUME NEW i \in InUse(gamepads)
        PROVE  \/ Has(q, Removed(gamepads[i].sdl_id))
               \/ /\ gamepads[i].sdl_id \in DOMAIN attached
                  /\ Matches(q, gamepads[i].sdl_id, attached[gamepads[i].sdl_id], gamepads[i].buttons)
    <3>1. gamepads[i].sdl_id # p
      BY <1>7 DEF HeldBy
    <3>2. gamepads[i].sdl_id \in D!Pads
      BY EntryPad
    <3> QED BY <1>2, <1>6, <3>1, <3>2 DEF Matches
  <2>2. Followed'
    BY <1>q, <1>7, <2>1 DEF Followed
  <2>3. Listed'
    BY <1>q, <1>2, <1>3, <1>7 DEF Promises, Listed
  <2>4. Waiting'
    BY <1>q, <1>1, <1>2, <1>3, <1>7 DEF Promises, Waiting, Unseen, Surplus
  <2>5. NotYet'
    BY <1>3, <1>7 DEF Promises, NotYet
  <2> QED BY <1>5, <2>2, <2>3, <2>4, <2>5 DEF Promises
<1>8. ASSUME NEW m \in HeldBy(gamepads, p), gamepads' = WithButtons(gamepads, m, Pressed(gamepads[m].buttons, d))
      PROVE  Promises'
  <2> DEFINE bs == Pressed(gamepads[m].buttons, d)
  <2>0. m \in InUse(gamepads) /\ m \in D!Indices /\ gamepads[m].sdl_id = p
    BY DEF HeldBy, InUse
  <2>b. bs \in SUBSET Buttons /\ bs = Pressed(gamepads[m].buttons, d)
    <3>1. gamepads[m].buttons \in SUBSET Buttons /\ d.button \in Buttons
      BY <1>0, <1>4, <2>0 DEF Gamepad, D!PadEvent
    <3> QED BY <3>1 DEF Pressed
  <2>w. gamepads' = WithButtons(gamepads, m, bs)
    BY <1>8
  <2> HIDE DEF bs
  <2>1. /\ InUse(gamepads') = InUse(gamepads)
        /\ \A o : HeldBy(gamepads', o) = HeldBy(gamepads, o)
        /\ \A i \in D!Indices : gamepads'[i].sdl_id = gamepads[i].sdl_id
        /\ gamepads'[m].buttons = bs
        /\ \A i \in D!Indices : i # m => gamepads'[i].buttons = gamepads[i].buttons
    BY ONLY <1>4, <2>0, <2>b, <2>w, ButtonsWritten
  <2>2. ASSUME NEW i \in InUse(gamepads)
        PROVE  \/ Has(q, Removed(gamepads'[i].sdl_id))
               \/ /\ gamepads'[i].sdl_id \in DOMAIN attached
                  /\ Matches(q, gamepads'[i].sdl_id, attached[gamepads'[i].sdl_id], gamepads'[i].buttons)
    <3>1. gamepads[i].sdl_id \in D!Pads /\ i \in D!Indices /\ gamepads'[i].sdl_id = gamepads[i].sdl_id
      BY <2>1, EntryPad
    <3>2. gamepads[i].sdl_id # p \/ i = m
      BY <1>4, <2>0 DEF OneEach
    <3>3. CASE i = m
      <4>1. Has(q, Removed(p)) \/ (p \in DOMAIN attached /\ attached[p] = bs)
        BY <1>6, <2>0, <2>b
      <4>2. gamepads'[i].buttons = bs /\ gamepads'[i].sdl_id = p
        BY <2>0, <2>1, <3>1, <3>3
      <4> QED BY <1>2, <4>1, <4>2 DEF Matches
    <3>4. CASE i # m
      <4>1. gamepads'[i].buttons = gamepads[i].buttons
        BY <2>1, <3>1, <3>4
      <4> QED BY <1>2, <1>6, <3>1, <3>2, <3>4, <4>1 DEF Matches
    <3> QED BY <3>3, <3>4
  <2>3. Followed'
    BY <1>q, <2>1, <2>2 DEF Followed
  <2>4. Listed'
    BY <1>q, <1>2, <1>3, <2>1 DEF Promises, Listed
  <2>5. Waiting'
    BY <1>q, <1>1, <1>2, <1>3, <2>1 DEF Promises, Waiting, Unseen, Surplus
  <2>6. NotYet'
    BY <1>3, <2>1 DEF Promises, NotYet
  <2> QED BY <1>5, <2>3, <2>4, <2>5, <2>6 DEF Promises
<1> QED BY <1>3, <1>7, <1>8

LEMMA EventKinds ==
  /\ \A e \in D!PadEvent : e.type \in {"added", "removed", "button"}
  /\ \A e \in D!Event : e.type \in {"added", "removed", "button"} => e \in D!PadEvent
BY DEF D!PadEvent, D!Event

LEMMA OtherRead ==
  ASSUME TableInv, Promises, queue \in Seq(D!Event), queue # <<>>, queue' = Tail(queue),
         Head(queue).type \notin {"added", "removed", "button"},
         UNCHANGED <<plugs, attached, refs, gamepads, sdl_gamepads>>, lpc # "done"
  PROVE  Promises'
<1> DEFINE q == Tail(queue)
<1>q. q = Tail(queue) /\ queue' = q
  OBVIOUS
<1> HIDE DEF q
<1>1. /\ \A e : Has(q, e) => Has(queue, e)
      /\ \A e : Has(queue, e) => Has(q, e) \/ e = Head(queue)
      /\ AddedOnce(q) /\ UserOnce(q)
      /\ \A o : Early(queue, o) /\ Head(queue) # D!Added(o) => Early(q, o)
  <2>1. AddedOnce(queue) /\ UserOnce(queue)
    BY DEF Promises, Announced, Used
  <2>2. queue \in Seq(D!Event) /\ queue # <<>>
    OBVIOUS
  <2> QED BY ONLY <1>q, <2>1, <2>2, EventRead
<1>2. \A e \in D!PadEvent : Has(q, e) <=> Has(queue, e)
  BY <1>1, EventKinds
<1>3. \A o : Head(queue) # D!Added(o)
  BY DEF D!Added
<1> QED BY <1>q, <1>1, <1>2, <1>3, PromisesKept

LEMMA OtherEvent ==
  ASSUME TableInv, Promises, queue \in Seq(D!Event),
         NEW e \in D!Event, e.type \notin {"added", "removed", "button"},
         e.type # "input" \/ ByUser(queue) = {},
         queue' = Append(queue, e),
         UNCHANGED <<plugs, attached, refs, gamepads, sdl_gamepads, lpc>>
  PROVE  Promises'
<1> DEFINE q == Append(queue, e)
<1>q. q = Append(queue, e) /\ queue' = q
  OBVIOUS
<1> HIDE DEF q
<1>1. /\ \A d : Has(q, d) <=> Has(queue, d) \/ d = e
      /\ AddedOnce(queue) /\ (e.type # "added" \/ ~Has(queue, e)) => AddedOnce(q)
      /\ UserOnce(queue) /\ (e.type \notin {"input", "button"} \/ ByUser(queue) = {}) => UserOnce(q)
      /\ \A p : Early(queue, p) => Early(q, p)
  BY ONLY <1>q, queue \in Seq(D!Event), e \in D!Event, PushedEvent
<1>2. AddedOnce(queue) /\ UserOnce(queue)
  BY DEF Promises, Announced, Used
<1>3. \A d \in D!PadEvent : Has(q, d) <=> Has(queue, d)
  BY <1>1, EventKinds
<1>4. AddedOnce(q) /\ UserOnce(q)
  BY <1>1, <1>2
<1> QED BY <1>q, <1>1, <1>3, <1>4, PromisesKept

LEMMA AttachPromises ==
  ASSUME TableInv, Promises, queue \in Seq(D!Event), plugs \in Nat, DOMAIN attached \subseteq 1 .. plugs,
         plugs < MaxPlugs, plugs' = plugs + 1,
         attached' = [p \in DOMAIN attached \cup {plugs + 1} |-> IF p = plugs + 1 THEN {} ELSE attached[p]],
         queue' = Append(queue, D!Added(plugs + 1)),
         UNCHANGED <<refs, gamepads, sdl_gamepads, lpc>>
  PROVE  Promises'
<1> DEFINE n == plugs + 1
           q == Append(queue, D!Added(n))
<1>q. /\ q = Append(queue, D!Added(n)) /\ queue' = q /\ plugs' = n
      /\ n \in D!Pads /\ n \in Nat /\ n > plugs /\ n \notin DOMAIN attached
  BY SdlBounds
<1>a. /\ DOMAIN attached' = DOMAIN attached \cup {n} /\ attached'[n] = {}
      /\ \A p \in DOMAIN attached : attached'[p] = attached[p] /\ p # n
  BY <1>q
<1> HIDE DEF n, q
<1>0. D!Added(n) \in D!Event
  BY <1>q, PadEvents DEF D!Event
<1>1. /\ \A d : Has(q, d) <=> Has(queue, d) \/ d = D!Added(n)
      /\ AddedOnce(queue) /\ ~Has(queue, D!Added(n)) => AddedOnce(q)
      /\ UserOnce(queue) /\ D!Added(n).type \notin {"input", "button"} => UserOnce(q)
      /\ \A p : Early(queue, p) => Early(q, p)
  BY ONLY <1>q, <1>0, queue \in Seq(D!Event), PushedEvent
<1>2. \A o \in D!Pads :
        /\ Has(q, Removed(o)) <=> Has(queue, Removed(o))
        /\ \A e \in ButtonsOf(o) : Has(q, e) <=> Has(queue, e)
        /\ Has(q, D!Added(o)) <=> Has(queue, D!Added(o)) \/ o = n
  <2>1. \A o \in D!Pads : D!Added(n) # Removed(o) /\ (D!Added(n) = D!Added(o) <=> o = n)
    BY <1>q, PadEvents
  <2>2. \A o \in D!Pads : \A e \in ButtonsOf(o) : e # D!Added(n)
    BY <1>q, PadEvents
  <2> QED BY <1>1, <2>1, <2>2
<1>3. /\ ~Has(queue, D!Added(n))
      /\ refs[n] = 0 /\ HeldBy(gamepads, n) = {}
      /\ \A e \in ButtonsOf(n) : ~Has(queue, e)
  <2>1. ~Has(queue, D!Added(n))
    BY <1>q DEF Promises, Announced
  <2>2. refs[n] = 0 /\ HeldBy(gamepads, n) = {}
    BY <1>q DEF Promises, NotYet
  <2>3. ~(n <= plugs)
    BY <1>q
  <2>4. \A e \in ButtonsOf(n) : ~Has(queue, e)
    BY <1>q, <2>3 DEF Promises, Used
  <2> QED BY <2>1, <2>2, <2>4
<1>4. Announced'
  <2>1. AddedOnce(q)
    BY <1>1, <1>3 DEF Promises, Announced
  <2> QED BY <1>q, <1>a, <1>2, <2>1 DEF Promises, Announced
<1>5. Left'
  <2> SUFFICES ASSUME NEW p \in D!Pads, Has(q, Removed(p)) PROVE p <= n /\ p \notin DOMAIN attached \cup {n}
    BY <1>q, <1>a DEF Left
  <2>1. p <= plugs /\ p \notin DOMAIN attached /\ p \in Nat
    BY <1>2, SdlBounds DEF Promises, Left
  <2> QED BY <1>q, <2>1
<1>6. Used'
  <2>1. UserOnce(q)
    <3>1. D!Added(n).type \notin {"input", "button"}
      BY <1>q, PadEvents
    <3> QED BY <1>1, <3>1 DEF Promises, Used
  <2>2. ASSUME NEW p \in D!Pads, NEW e \in ButtonsOf(p), Has(q, e) PROVE p <= n
    <3>1. p <= plugs /\ p \in Nat
      BY <1>2, <2>2, SdlBounds DEF Promises, Used
    <3> QED BY <1>q, <3>1
  <2> QED BY <1>q, <2>1, <2>2 DEF Used
<1>7. Followed'
  <2> SUFFICES ASSUME lpc # "done", NEW i \in InUse(gamepads)
               PROVE  \/ Has(q, Removed(gamepads[i].sdl_id))
                      \/ /\ gamepads[i].sdl_id \in DOMAIN attached'
                         /\ Matches(q, gamepads[i].sdl_id, attached'[gamepads[i].sdl_id], gamepads[i].buttons)
    BY <1>q DEF Followed
  <2>1. gamepads[i].sdl_id \in D!Pads
    BY EntryPad
  <2>2. \/ Has(queue, Removed(gamepads[i].sdl_id))
        \/ /\ gamepads[i].sdl_id \in DOMAIN attached
           /\ Matches(queue, gamepads[i].sdl_id, attached[gamepads[i].sdl_id], gamepads[i].buttons)
    BY DEF Promises, Followed
  <2> QED BY <1>a, <1>2, <2>1, <2>2, MatchesKept
<1>8. Listed'
  BY <1>q, <1>a, <1>2 DEF Promises, Listed
<1>9. Waiting'
  <2> SUFFICES ASSUME NEW o \in D!Pads, Has(q, D!Added(o)), HeldBy(gamepads, o) = {}
               PROVE  (Unseen(o) \/ Surplus(o))'
    BY <1>q DEF Waiting
  <2>1. CASE o = n
    BY <1>q, <1>a, <1>2, <1>3, <2>1 DEF Unseen
  <2>2. CASE o # n
    <3>1. Has(queue, D!Added(o)) /\ o \in DOMAIN attached
      BY <1>2, <2>2 DEF Promises, Announced
    <3>2. Unseen(o) \/ Surplus(o)
      BY <3>1 DEF Promises, Waiting
    <3>3. Unseen(o) => Unseen(o)'
      BY <1>q, <1>a, <1>2, <3>1 DEF Unseen
    <3>4. Surplus(o) => Surplus(o)'
      BY <1>q, <1>1 DEF Surplus
    <3> QED BY <3>2, <3>3, <3>4
  <2> QED BY <2>1, <2>2
<1>10. NotYet'
  <2> SUFFICES ASSUME NEW p \in D!Pads, p > n PROVE refs[p] = 0 /\ HeldBy(gamepads, p) = {}
    BY <1>q DEF NotYet
  <2>1. p > plugs
    BY <1>q, SdlBounds
  <2> QED BY <2>1 DEF Promises, NotYet
<1> QED BY <1>4, <1>5, <1>6, <1>7, <1>8, <1>9, <1>10 DEF Promises

\* A gamepad leaves, or is one that SDL could not open: its announcement is gone, and its
\* removal is announced if it was open.
LEMMA DetachPromises ==
  ASSUME TableInv, Promises, queue \in Seq(D!Event), plugs \in Nat, DOMAIN attached \subseteq 1 .. plugs,
         NEW p \in D!Pads, p \in DOMAIN attached,
         attached' = [o \in DOMAIN attached \ {p} |-> attached[o]],
         NEW u \in Seq(D!Event),
         \/ \E h \in DOMAIN queue : queue[h] = D!Added(p) /\ Omits(queue, h, u)
         \/ ~Has(queue, D!Added(p)) /\ u = queue,
         \/ refs[p] > 0 /\ queue' = Append(u, Removed(p))
         \/ refs[p] = 0 /\ queue' = u,
         UNCHANGED <<plugs, refs, gamepads, sdl_gamepads, lpc>>
  PROVE  Promises'
<1>0. /\ u \in Seq(D!Event)
      /\ \/ \E h \in DOMAIN queue : queue[h] = D!Added(p) /\ Omits(queue, h, u)
         \/ ~Has(queue, D!Added(p)) /\ u = queue
  OBVIOUS
<1>u. \/ refs[p] > 0 /\ queue' = Append(u, Removed(p))
      \/ refs[p] = 0 /\ queue' = u
  OBVIOUS
<1>k. /\ AddedOnce(queue) /\ UserOnce(queue) /\ D!Added(p).type = "added"
      /\ \A o \in D!Pads : D!Added(o) = D!Added(p) <=> o = p
  BY PadEvents DEF Promises, Announced, Used
<1>1. /\ \A e : Has(u, e) => Has(queue, e)
      /\ \A e : Has(queue, e) => Has(u, e) \/ e = D!Added(p)
      /\ ~Has(u, D!Added(p))
      /\ AddedOnce(u) /\ UserOnce(u)
      /\ \A o \in D!Pads : Early(queue, o) /\ o # p => Early(u, o)
  <2>1. CASE ~Has(queue, D!Added(p)) /\ u = queue
    BY <1>k, <2>1
  <2>2. ASSUME NEW h \in DOMAIN queue, queue[h] = D!Added(p), Omits(queue, h, u)
        PROVE  /\ \A e : Has(u, e) => Has(queue, e)
               /\ \A e : Has(queue, e) => Has(u, e) \/ e = D!Added(p)
               /\ ~Has(u, D!Added(p))
               /\ AddedOnce(u) /\ UserOnce(u)
               /\ \A o \in D!Pads : Early(queue, o) /\ o # p => Early(u, o)
    <3>1. /\ \A e : Has(u, e) => Has(queue, e)
          /\ \A e : Has(queue, e) => Has(u, e) \/ e = queue[h]
      BY <2>2, HasOmits
    <3>2. AddedOnce(u) /\ UserOnce(u) /\ ~Has(u, queue[h])
      BY <1>k, <2>2, OnceOmits
    <3>3. \A o : Early(queue, o) /\ queue[h] # D!Added(o) => Early(u, o)
      BY <2>2, EarlyOmits
    <3> QED BY <1>k, <2>2, <3>1, <3>2, <3>3
  <2> QED BY <1>0, <2>1, <2>2
<1> DEFINE q == queue'
<1>q. q = queue'
  OBVIOUS
<1> HIDE DEF q
<1>2. /\ \A e : Has(q, e) <=> Has(u, e) \/ (e = Removed(p) /\ refs[p] > 0)
      /\ AddedOnce(q) /\ UserOnce(q)
      /\ \A o : Early(u, o) => Early(q, o)
  <2>1. CASE refs[p] > 0 /\ q = Append(u, Removed(p))
    <3>1. Removed(p) \in D!Event /\ Removed(p).type = "removed"
      BY PadEvents DEF D!Event
    <3>2. /\ \A e : Has(q, e) <=> Has(u, e) \/ e = Removed(p)
          /\ AddedOnce(u) => AddedOnce(q)
          /\ UserOnce(u) => UserOnce(q)
          /\ \A o : Early(u, o) => Early(q, o)
      BY ONLY <1>0, <2>1, <3>1, PushedEvent
    <3> QED BY <1>1, <2>1, <3>2
  <2>2. CASE refs[p] = 0 /\ q = u
    BY <1>1, <2>2
  <2> QED BY <1>q, <1>u, <2>1, <2>2
<1>3. \A o \in D!Pads :
        /\ Has(q, Removed(o)) <=> Has(queue, Removed(o)) \/ (o = p /\ refs[p] > 0)
        /\ \A e \in ButtonsOf(o) : Has(q, e) <=> Has(queue, e)
        /\ Has(q, D!Added(o)) <=> Has(queue, D!Added(o)) /\ o # p
        /\ Early(queue, o) /\ o # p => Early(q, o)
  <2>1. \A o \in D!Pads : /\ D!Added(p) # Removed(o) /\ D!Added(o) # Removed(p)
                          /\ (Removed(p) = Removed(o) <=> o = p)
    BY PadEvents
  <2>2. \A o \in D!Pads : \A e \in ButtonsOf(o) : e # D!Added(p) /\ e # Removed(p)
    BY PadEvents
  <2> QED BY <1>k, <1>1, <1>2, <2>1, <2>2
<1>a. /\ DOMAIN attached' = DOMAIN attached \ {p}
      /\ \A o \in DOMAIN attached' : attached'[o] = attached[o]
  OBVIOUS
<1>4. Announced'
  BY <1>q, <1>a, <1>2, <1>3 DEF Promises, Announced
<1>5. Left'
  <2>1. p <= plugs
    BY SdlBounds
  <2> QED BY <1>q, <1>a, <1>3, <2>1 DEF Promises, Left
<1>6. Used'
  BY <1>q, <1>2, <1>3 DEF Promises, Used
<1>7. Followed'
  <2> SUFFICES ASSUME lpc # "done", NEW i \in InUse(gamepads)
               PROVE  \/ Has(q, Removed(gamepads[i].sdl_id))
                      \/ /\ gamepads[i].sdl_id \in DOMAIN attached'
                         /\ Matches(q, gamepads[i].sdl_id, attached'[gamepads[i].sdl_id], gamepads[i].buttons)
    BY <1>q DEF Followed
  <2>1. gamepads[i].sdl_id \in D!Pads
    BY EntryPad
  <2>2. \/ Has(queue, Removed(gamepads[i].sdl_id))
        \/ /\ gamepads[i].sdl_id \in DOMAIN attached
           /\ Matches(queue, gamepads[i].sdl_id, attached[gamepads[i].sdl_id], gamepads[i].buttons)
    BY DEF Promises, Followed
  <2>3. CASE gamepads[i].sdl_id = p
    <3>0. Claims(gamepads, p) # {}
      BY <2>3 DEF Claims
    <3>1. IsFiniteSet(Claims(gamepads, p)) /\ Cardinality(Claims(gamepads, p)) \in Nat
      BY TableFinite
    <3>2. Cardinality(Claims(gamepads, p)) # 0
      BY <3>0, <3>1, FS_EmptySet
    <3>3. refs[p] >= Cardinality(Claims(gamepads, p)) /\ refs[p] \in Nat
      BY DEF TableInv, TableTyped, RefsInv
    <3>4. refs[p] > 0
      BY <3>1, <3>2, <3>3
    <3> QED BY <1>3, <2>3, <3>4
  <2>4. CASE gamepads[i].sdl_id # p
    <3>1. gamepads[i].sdl_id \in DOMAIN attached => /\ gamepads[i].sdl_id \in DOMAIN attached'
                                                   /\ attached'[gamepads[i].sdl_id] = attached[gamepads[i].sdl_id]
      BY <1>a, <2>4
    <3> QED BY <1>3, <2>1, <2>2, <3>1, MatchesKept
  <2> QED BY <2>3, <2>4
<1>8. Listed'
  BY <1>q, <1>a, <1>3 DEF Promises, Listed
<1>9. Waiting'
  <2> SUFFICES ASSUME NEW o \in D!Pads, Has(q, D!Added(o)), HeldBy(gamepads, o) = {}
               PROVE  (Unseen(o) \/ Surplus(o))'
    BY <1>q DEF Waiting
  <2>1. Has(queue, D!Added(o)) /\ o # p /\ o \in DOMAIN attached
    BY <1>3 DEF Promises, Announced
  <2>2. Unseen(o) \/ Surplus(o)
    BY <2>1 DEF Promises, Waiting
  <2>3. Unseen(o) => Unseen(o)'
    BY <1>q, <1>a, <1>3, <2>1 DEF Unseen
  <2>4. Surplus(o) => Surplus(o)'
    BY <1>q, <1>3, <2>1 DEF Surplus
  <2> QED BY <2>2, <2>3, <2>4
<1>10. NotYet'
  BY DEF Promises, NotYet
<1> QED BY <1>4, <1>5, <1>6, <1>7, <1>8, <1>9, <1>10 DEF Promises

LEMMA ButtonPromises ==
  ASSUME TableInv, Promises, queue \in Seq(D!Event), plugs \in Nat, DOMAIN attached \subseteq 1 .. plugs,
         NEW p \in D!Pads, NEW b \in Buttons, p \in DOMAIN attached, refs[p] > 0, ByUser(queue) = {},
         attached' = [attached EXCEPT ![p] = IF b \in @ THEN @ \ {b} ELSE @ \cup {b}],
         NEW d \in ButtonsOf(p), d.button = b, d.down <=> b \notin attached[p],
         queue' = Append(queue, d),
         UNCHANGED <<plugs, refs, gamepads, sdl_gamepads, lpc>>
  PROVE  Promises'
<1> DEFINE q == Append(queue, d)
<1>q. q = Append(queue, d) /\ queue' = q
  OBVIOUS
<1> HIDE DEF q
<1>0. d \in D!PadEvent /\ d \in D!Event /\ d.type = "button" /\ d.pad = p
  BY PadEvents DEF D!Event
<1>1. /\ \A e : Has(q, e) <=> Has(queue, e) \/ e = d
      /\ AddedOnce(queue) => AddedOnce(q)
      /\ UserOnce(queue) => UserOnce(q)
      /\ \A o : Early(queue, o) => Early(q, o)
  BY ONLY <1>q, <1>0, queue \in Seq(D!Event), ByUser(queue) = {}, PushedEvent
<1>2. \A o \in D!Pads :
        /\ Has(q, Removed(o)) <=> Has(queue, Removed(o))
        /\ Has(q, D!Added(o)) <=> Has(queue, D!Added(o))
        /\ \A e \in ButtonsOf(o) : ~Has(queue, e)
        /\ \A e \in ButtonsOf(o) : Has(q, e) <=> e = d
        /\ o # p => d \notin ButtonsOf(o)
  <2>1. \A o \in D!Pads : Removed(o) # d /\ D!Added(o) # d
    BY <1>0, PadEvents
  <2>2. \A o \in D!Pads : \A e \in ButtonsOf(o) : ~Has(queue, e)
    BY NoButtons
  <2>3. \A o \in D!Pads : o # p => d \notin ButtonsOf(o)
    BY <1>0 DEF ButtonsOf
  <2> QED BY <1>1, <2>1, <2>2, <2>3
<1>a. /\ DOMAIN attached' = DOMAIN attached
      /\ \A o \in DOMAIN attached : o # p => attached'[o] = attached[o]
      /\ attached'[p] = Pressed(attached[p], d)
  <2>1. attached'[p] = IF b \in attached[p] THEN attached[p] \ {b} ELSE attached[p] \cup {b}
    OBVIOUS
  <2>2. DOMAIN attached' = DOMAIN attached /\ \A o \in DOMAIN attached : o # p => attached'[o] = attached[o]
    OBVIOUS
  <2>3. CASE b \in attached[p]
    <3>1. ~d.down
      BY <2>3
    <3> QED BY <2>1, <2>2, <2>3, <3>1 DEF Pressed
  <2>4. CASE b \notin attached[p]
    <3>1. d.down
      BY <2>4
    <3> QED BY <2>1, <2>2, <2>4, <3>1 DEF Pressed
  <2> QED BY <2>3, <2>4
<1>3. Announced'
  BY <1>q, <1>a, <1>1, <1>2 DEF Promises, Announced
<1>4. Left'
  BY <1>q, <1>a, <1>2 DEF Promises, Left
<1>5. Used'
  <2>1. p <= plugs
    BY SdlBounds
  <2>2. ASSUME NEW o \in D!Pads, NEW e \in ButtonsOf(o), Has(q, e) PROVE o <= plugs
    BY <1>2, <2>1, <2>2
  <2> QED BY <1>q, <1>1, <2>2 DEF Promises, Used
<1>6. Followed'
  <2> SUFFICES ASSUME lpc # "done", NEW i \in InUse(gamepads)
               PROVE  \/ Has(q, Removed(gamepads[i].sdl_id))
                      \/ /\ gamepads[i].sdl_id \in DOMAIN attached'
                         /\ Matches(q, gamepads[i].sdl_id, attached'[gamepads[i].sdl_id], gamepads[i].buttons)
    BY <1>q DEF Followed
  <2> DEFINE o == gamepads[i].sdl_id
  <2>1. o \in D!Pads
    BY EntryPad
  <2>2. \/ Has(queue, Removed(o))
        \/ o \in DOMAIN attached /\ Matches(queue, o, attached[o], gamepads[i].buttons)
    BY DEF Promises, Followed
  <2> HIDE DEF o
  <2>3. Matches(queue, o, attached[o], gamepads[i].buttons) => attached[o] = gamepads[i].buttons
    BY <1>2, <2>1 DEF Matches
  <2>4. CASE o = p
    <3>1. attached[o] = gamepads[i].buttons => Matches(q, o, attached'[o], gamepads[i].buttons)
      BY <1>2, <1>a, <2>4 DEF Matches
    <3> QED BY <1>2, <1>a, <2>1, <2>2, <2>3, <3>1 DEF o
  <2>5. CASE o # p
    <3>1. \A e \in ButtonsOf(o) : ~Has(q, e)
      BY <1>2, <2>1, <2>5
    <3>2. o \in DOMAIN attached /\ attached[o] = gamepads[i].buttons => Matches(q, o, attached'[o], gamepads[i].buttons)
      BY <1>a, <2>5, <3>1 DEF Matches
    <3> QED BY <1>2, <1>a, <2>1, <2>2, <2>3, <3>2 DEF o
  <2> QED BY <2>4, <2>5
<1>7. Listed'
  BY <1>q, <1>a, <1>2 DEF Promises, Listed
<1>8. Waiting'
  <2> SUFFICES ASSUME NEW o \in D!Pads, Has(q, D!Added(o)), HeldBy(gamepads, o) = {}
               PROVE  (Unseen(o) \/ Surplus(o))'
    BY <1>q DEF Waiting
  <2>1. Has(queue, D!Added(o)) /\ o \in DOMAIN attached
    BY <1>2 DEF Promises, Announced
  <2>2. Unseen(o) \/ Surplus(o)
    BY <2>1 DEF Promises, Waiting
  <2>3. Unseen(o) => Unseen(o)'
    <3>1. Unseen(o) => o # p
      BY DEF Unseen
    <3>2. o # p => \A e \in ButtonsOf(o) : ~Has(q, e)
      BY <1>2
    <3> QED BY <1>q, <1>a, <2>1, <3>1, <3>2 DEF Unseen
  <2>4. Surplus(o) => Surplus(o)'
    BY <1>q, <1>1 DEF Surplus
  <2> QED BY <2>2, <2>3, <2>4
<1>9. NotYet'
  BY DEF Promises, NotYet
<1> QED BY <1>3, <1>4, <1>5, <1>6, <1>7, <1>8, <1>9 DEF Promises

LEMMA SetUpPromises ==
  ASSUME NEW n \in D!Pads \cup {0}, D!sdlinput_init(n), ~lost', lpc' # "done"
  PROVE  Promises'
<1>0. n \in 0 .. MaxPlugs /\ n \in Nat /\ MaxPlugs \in Nat /\ MAX_GAMEPADS \in Nat
  BY SdlBounds
<1> DEFINE q == queue'
<1>q. q = queue'
  OBVIOUS
<1>1. /\ plugs' = n /\ attached' = [p \in 1 .. n |-> {}]
      /\ q = [p \in {o \in 1 .. n : o <= QueueSize} |-> D!Added(p)] /\ ~(n > QueueSize)
      /\ refs' = [p \in D!Pads |-> IF p <= n THEN 1 ELSE 0]
  BY DEF D!sdlinput_init
<1> HIDE DEF q
<1>2. DOMAIN q = 1 .. n /\ \A k \in 1 .. n : q[k] = D!Added(k)
  <2>1. {o \in 1 .. n : o <= QueueSize} = 1 .. n
    BY <1>0, <1>1, SdlBounds
  <2> QED BY <1>1, <2>1
<1>3. /\ TableInv'
      /\ InUse(gamepads') = {i \in D!Indices : i < n}
      /\ \A i \in InUse(gamepads') : gamepads'[i].sdl_id = i + 1 /\ gamepads'[i].buttons = {}
  BY SetUpTable
<1>4. \A p \in D!Pads : p \in Nat /\ p > 0 /\ refs'[p] = IF p <= n THEN 1 ELSE 0
  BY <1>1, SdlBounds
<1>5. \A k \in 1 .. n : k \in D!Pads /\ D!Added(k).type = "added" /\ D!Added(k).pad = k
  BY <1>0, SdlBounds DEF D!Added
<1>6. \A p \in D!Pads :
        /\ Has(q, D!Added(p)) <=> p \in 1 .. n
        /\ ~Has(q, Removed(p))
        /\ \A e \in ButtonsOf(p) : ~Has(q, e)
  <2> SUFFICES ASSUME NEW p \in D!Pads
               PROVE  /\ Has(q, D!Added(p)) <=> p \in 1 .. n
                      /\ ~Has(q, Removed(p))
                      /\ \A e \in ButtonsOf(p) : ~Has(q, e)
    OBVIOUS
  <2>1. D!Added(p).pad = p /\ Removed(p).type = "removed" /\ \A e \in ButtonsOf(p) : e.type = "button"
    BY PadEvents
  <2>2. Has(q, D!Added(p)) <=> p \in 1 .. n
    BY <1>2, <1>5, <2>1 DEF Has
  <2>3. ~Has(q, Removed(p))
    BY <1>2, <1>5, <2>1 DEF Has
  <2>4. \A e \in ButtonsOf(p) : ~Has(q, e)
    BY <1>2, <1>5, <2>1 DEF Has
  <2> QED BY <2>2, <2>3, <2>4
<1>7. Announced'
  <2>1. AddedOnce(q)
    BY <1>2, <1>5 DEF AddedOnce
  <2> QED BY <1>q, <1>1, <1>6, <2>1 DEF Announced
<1>8. Left' /\ Used'
  <2>1. UserOnce(q)
    BY <1>2, <1>5 DEF UserOnce, ByUser
  <2> QED BY <1>q, <1>6, <2>1 DEF Left, Used
<1>9. Followed'
  <2> SUFFICES ASSUME NEW i \in InUse(gamepads')
               PROVE  /\ gamepads'[i].sdl_id \in DOMAIN attached'
                      /\ Matches(q, gamepads'[i].sdl_id, attached'[gamepads'[i].sdl_id], gamepads'[i].buttons)
    BY <1>q DEF Followed
  <2>1. i \in Nat /\ i < n /\ gamepads'[i].sdl_id = i + 1 /\ gamepads'[i].buttons = {}
    BY <1>3, SdlBounds
  <2>2. i + 1 \in 1 .. n /\ i + 1 \in D!Pads
    BY <1>0, <2>1, SdlBounds
  <2>3. attached'[i + 1] = {} /\ i + 1 \in DOMAIN attached'
    BY <1>1, <2>2
  <2> QED BY <1>6, <2>1, <2>2, <2>3 DEF Matches
<1>10. Listed'
  BY <1>q, <1>1, <1>6 DEF Listed
<1>11. Waiting'
  <2> SUFFICES ASSUME NEW p \in D!Pads, Has(q, D!Added(p)), HeldBy(gamepads', p) = {}
               PROVE  Surplus(p)'
    BY <1>q DEF Waiting
  <2>1. p \in 1 .. n /\ p \in Nat
    BY <1>4, <1>6
  <2>2. refs'[p] = 1
    BY <1>0, <1>4, <2>1
  <2>3. p - 1 \notin D!Indices
    <3>1. ASSUME p - 1 \in D!Indices PROVE FALSE
      <4>1. p - 1 \in InUse(gamepads')
        BY <1>0, <1>3, <2>1, <3>1
      <4>2. gamepads'[p - 1].sdl_id = p
        BY <1>3, <2>1, <4>1
      <4> QED BY <4>1, <4>2 DEF HeldBy
    <3> QED BY <3>1
  <2>4. n > MAX_GAMEPADS
    BY <1>0, <2>1, <2>3, SdlBounds
  <2>5. \A i \in D!Indices : i < n
    BY <1>0, <2>4, SdlBounds
  <2>6. InUse(gamepads') = D!Indices
    BY <1>3, <2>5
  <2>7. Early(q, p)
    <3>1. p \in DOMAIN q /\ q[p] = D!Added(p)
      BY <1>2, <2>1
    <3>2. ASSUME NEW j \in 1 .. p PROVE q[j].type # "removed"
      <4>1. j \in 1 .. n
        BY <1>0, <2>1
      <4> QED BY <1>2, <1>5, <4>1
    <3> QED BY <3>1, <3>2 DEF Early
  <2> QED BY <1>q, <2>2, <2>6, <2>7 DEF Surplus
<1>12. NotYet'
  <2> SUFFICES ASSUME NEW p \in D!Pads, p > n PROVE refs'[p] = 0 /\ HeldBy(gamepads', p) = {}
    BY <1>1 DEF NotYet
  <2>1. p \in Nat /\ ~(p <= n)
    BY <1>0, <1>4
  <2>2. \A i \in InUse(gamepads') : gamepads'[i].sdl_id # p
    BY <1>0, <1>3, <2>1, SdlBounds
  <2> QED BY <1>4, <2>1, <2>2 DEF HeldBy
<1> QED BY <1>7, <1>8, <1>9, <1>10, <1>11, <1>12 DEF Promises

-----------------------------------------------------------------------------
(* Every step of the SDL platform.                                         *)

\* The frame that is about to be shown is in its buffer until the ring has turned.
UploadInv ==
  lpc = "upload" /\ ~lost /\ decoded < sdlCurrentFrame + FrameCount =>
    Age(entry, next_frame) = decoded - sdlCurrentFrame

SdlInv == D!TypeOK /\ NumbersInv /\ SetupInv /\ TableInv /\ QueueInv /\ UploadInv

LEMMA TableCarried ==
  ASSUME TableInv, UNCHANGED D!padVars, lpc = "done" => lpc' = "done"
  PROVE  TableInv'
BY DEF D!padVars, TableInv, TableTyped, MaskInv, RefsInv

LEMMA HeadEvent ==
  ASSUME D!TypeOK, queue # <<>>
  PROVE  /\ queue \in Seq(D!Event) /\ Head(queue) \in D!Event
         /\ Head(queue).type \in {"added", "removed", "button"} => Head(queue) \in D!PadEvent
<1>1. queue \in Seq(D!Event) /\ Head(queue) \in D!Event
  BY DEF D!TypeOK
<1> QED BY <1>1, EventKinds

\* An event of a gamepad is read.
LEMMA PadRead ==
  ASSUME SdlInv, D!PadEventRead
  PROVE  TableInv' /\ QueueInv'
<1>1. /\ lpc = "wait" /\ queue # <<>> /\ queue' = Tail(queue) /\ queue \in Seq(D!Event)
      /\ lpc' = IF D!Quits(Head(queue)) THEN "done" ELSE "wait"
      /\ UNCHANGED <<plugs, attached, lost>>
      /\ TableInv /\ plugs \in Nat /\ DOMAIN attached \subseteq 1 .. plugs
      /\ ~lost => Promises
  BY SdlBounds DEF D!PadEventRead, SdlInv, D!TypeOK, D!InputTypeOK, QueueInv
<1>2. /\ \/ Head(queue).type = "added" /\ D!add_gamepad(Head(queue).pad)
         \/ Head(queue).type = "removed" /\ D!remove_gamepad(Head(queue).pad)
         \/ Head(queue).type = "button" /\ D!HandleButton(Head(queue))
      /\ Head(queue) \in D!PadEvent
  BY <1>1, HeadEvent DEF D!PadEventRead, D!HandlePad, SdlInv
<1>3. PICK p \in D!Pads : p = Head(queue).pad
  <2>1. \A e \in D!PadEvent : e.pad \in D!Pads
    BY DEF D!PadEvent
  <2> QED BY <1>2, <2>1
<1>4. CASE Head(queue).type = "added" /\ D!add_gamepad(p)
  <2>1. Head(queue) = D!Added(p) /\ lpc # "done" /\ lpc' # "done"
    BY <1>1, <1>2, <1>3, <1>4, PadEvents DEF D!Quits
  <2>2. TableInv'
    BY <1>1, <1>4, <2>1, AddKept
  <2>3. ~lost => Promises'
    BY <1>1, <1>4, <2>1, AddRead
  <2> QED BY <1>1, <2>2, <2>3 DEF QueueInv
<1>5. CASE Head(queue).type = "removed" /\ D!remove_gamepad(p)
  <2>1. Head(queue) = Removed(p) /\ lpc # "done" /\ lpc' # "done"
    BY <1>1, <1>2, <1>3, <1>5, PadEvents DEF D!Quits
  <2>2. TableInv'
    BY <1>1, <1>5, <2>1, RemoveKept
  <2>3. ~lost => Promises'
    BY <1>1, <1>5, <2>1, RemoveRead
  <2> QED BY <1>1, <2>2, <2>3 DEF QueueInv
<1>6. CASE Head(queue).type = "button" /\ D!HandleButton(Head(queue))
  <2>1. Head(queue) \in ButtonsOf(p) /\ lpc # "done"
    BY <1>1, <1>2, <1>3, <1>6, PadEvents
  <2>2. D!Quits(Head(queue)) => lpc' = "done"
    BY <1>1
  <2>3. TableInv'
    BY <1>1, <1>2, <1>6, <2>1, <2>2, ButtonKept
  <2>4. ~lost => Promises'
    BY <1>1, <1>6, <2>1, ButtonRead
  <2> QED BY <1>1, <2>3, <2>4 DEF QueueInv
<1> QED BY <1>2, <1>3, <1>4, <1>5, <1>6

\* The announcement of a gamepad that SDL cannot open is read.
LEMMA NotOpened ==
  ASSUME SdlInv, D!PadNotOpened
  PROVE  TableInv' /\ QueueInv'
<1> DEFINE p == Head(queue).pad
           u == Tail(queue)
<1>1. /\ lpc = "wait" /\ queue # <<>> /\ queue' = u /\ queue \in Seq(D!Event)
      /\ Head(queue).type = "added" /\ refs[p] = 0
      /\ attached' = [q \in DOMAIN attached \ {p} |-> attached[q]]
      /\ UNCHANGED <<plugs, lost, lpc>> /\ UNCHANGED D!padVars
      /\ TableInv /\ plugs \in Nat /\ DOMAIN attached \subseteq 1 .. plugs
      /\ ~lost => Promises
  BY SdlBounds DEF D!PadNotOpened, D!First, D!OpenFails, D!loopVars, SdlInv, D!TypeOK, D!InputTypeOK, QueueInv
<1>2. p \in D!Pads /\ Head(queue) = D!Added(p)
  <2>1. Head(queue) \in D!PadEvent
    BY <1>1, HeadEvent DEF SdlInv
  <2> DEFINE e == Head(queue)
  <2>2. e \in D!PadEvent /\ e.type = "added"
    BY <1>1, <2>1
  <2> HIDE DEF e
  <2>3. e = D!Added(e.pad) /\ e.pad \in D!Pads
    BY <2>2 DEF D!PadEvent, D!Added
  <2> QED BY <2>3 DEF e
<1>3. u \in Seq(D!Event) /\ \E h \in DOMAIN queue : queue[h] = D!Added(p) /\ Omits(queue, h, u)
  <2>1. Tail(queue) \in Seq(D!Event) /\ Omits(queue, 1, Tail(queue)) /\ Head(queue) = queue[1]
    BY <1>1, TailOmits
  <2>2. 1 \in DOMAIN queue
    BY <1>1
  <2> QED BY <1>2, <2>1, <2>2
<1>4. Has(queue, D!Added(p))
  BY <1>3 DEF Has
<1> HIDE DEF p, u
<1>5. ~lost' => Promises'
  <2> SUFFICES ASSUME ~lost PROVE Promises'
    BY <1>1
  <2>1. p \in DOMAIN attached
    BY <1>1, <1>2, <1>4 DEF Promises, Announced
  <2> QED BY <1>1, <1>2, <1>3, <2>1, DetachPromises DEF D!padVars
<1> QED BY <1>1, <1>5, TableCarried DEF QueueInv

\* The world plugs gamepads in and out, and uses them.
LEMMA PadsMoved ==
  ASSUME SdlInv, D!PadsMove
  PROVE  TableInv' /\ QueueInv'
<1>1. /\ queue \in Seq(D!Event) /\ Len(queue) <= QueueSize /\ lost \in BOOLEAN
      /\ TableInv /\ plugs \in Nat /\ DOMAIN attached \subseteq 1 .. plugs
      /\ ~lost => Promises
      /\ lpc' = lpc
  BY SdlBounds DEF D!PadsMove, D!loopVars, SdlInv, D!TypeOK, D!InputTypeOK, QueueInv
<1>2. CASE D!Attach
  <2>1. /\ plugs < MaxPlugs /\ plugs' = plugs + 1
        /\ attached' = [p \in DOMAIN attached \cup {plugs + 1} |-> IF p = plugs + 1 THEN {} ELSE attached[p]]
        /\ D!PushTo(queue, D!Added(plugs + 1))
        /\ UNCHANGED D!padVars
    BY <1>2 DEF D!Attach, D!PushEvent
  <2>2. D!Added(plugs + 1) \in D!Event
    BY <1>1, <2>1, SdlBounds DEF D!Event, D!PadEvent, D!Added
  <2>3. ~lost' => ~lost /\ queue' = Append(queue, D!Added(plugs + 1))
    BY <1>1, <2>1, <2>2, PushedTo
  <2>4. ~lost' => Promises'
    BY <1>1, <2>1, <2>3, AttachPromises DEF D!padVars
  <2> QED BY <1>1, <2>1, <2>4, TableCarried DEF QueueInv
<1>3. ASSUME NEW p \in D!Pads, D!Detach(p) PROVE TableInv' /\ QueueInv'
  <2>1. /\ p \in DOMAIN attached
        /\ attached' = [q \in DOMAIN attached \ {p} |-> attached[q]]
        /\ \/ refs[p] > 0 /\ D!PushTo(D!Withdrawn(p), Removed(p))
           \/ refs[p] = 0 /\ queue' = D!Withdrawn(p) /\ UNCHANGED lost
        /\ UNCHANGED plugs /\ UNCHANGED D!padVars
    BY <1>3 DEF D!Detach, Removed
  <2>2. D!Withdrawn(p) \in Seq(D!Event) /\ Len(D!Withdrawn(p)) <= Len(queue)
    BY <1>1, Withdrawing
  <2>3. Len(D!Withdrawn(p)) <= QueueSize
    <3>1. Len(D!Withdrawn(p)) \in Nat /\ Len(queue) \in Nat
      BY <1>1, <2>2
    <3> QED BY <1>1, <2>2, <3>1, SdlBounds
  <2>4. Removed(p) \in D!Event
    BY PadEvents DEF D!Event
  <2>5. ~lost' => /\ ~lost
                  /\ \/ refs[p] > 0 /\ queue' = Append(D!Withdrawn(p), Removed(p))
                     \/ refs[p] = 0 /\ queue' = D!Withdrawn(p)
    <3>1. D!PushTo(D!Withdrawn(p), Removed(p)) => (~lost' => ~lost /\ queue' = Append(D!Withdrawn(p), Removed(p)))
      BY <1>1, <2>2, <2>3, <2>4, PushedTo
    <3> QED BY <2>1, <3>1
  <2>6. ~lost' => Promises'
    <3>1. /\ D!Withdrawn(p) \in Seq(D!Event)
          /\ \/ \E h \in DOMAIN queue : queue[h] = D!Added(p) /\ Omits(queue, h, D!Withdrawn(p))
             \/ ~Has(queue, D!Added(p)) /\ D!Withdrawn(p) = queue
      BY <1>1, Withdrawing
    <3> QED BY <1>1, <2>1, <2>5, <3>1, DetachPromises DEF D!padVars
  <2> QED BY <1>1, <2>1, <2>6, TableCarried DEF QueueInv
<1>4. ASSUME NEW p \in D!Pads, NEW b \in Buttons, D!Button(p, b) PROVE TableInv' /\ QueueInv'
  <2> DEFINE d == [type |-> "button", pad |-> p, button |-> b, down |-> b \notin attached[p]]
  <2>1. /\ p \in DOMAIN attached /\ refs[p] > 0
        /\ \A k \in DOMAIN queue : queue[k].type \notin {"input", "button"}
        /\ attached' = [attached EXCEPT ![p] = IF b \in @ THEN @ \ {b} ELSE @ \cup {b}]
        /\ D!PushTo(queue, d)
        /\ UNCHANGED plugs /\ UNCHANGED D!padVars
    BY <1>4 DEF D!Button, D!PushEvent
  <2>2. d \in ButtonsOf(p) /\ d \in D!Event /\ d.button = b /\ (d.down <=> b \notin attached[p])
    <3>1. d \in D!PadEvent /\ d.type = "button" /\ d.pad = p
      BY DEF D!PadEvent
    <3> QED BY <3>1 DEF ButtonsOf, D!Event
  <2> HIDE DEF d
  <2>3. ByUser(queue) = {}
    BY <2>1 DEF ByUser
  <2>4. ~lost' => ~lost /\ queue' = Append(queue, d)
    BY <1>1, <2>1, <2>2, PushedTo
  <2>5. ~lost' => Promises'
    BY <1>1, <2>1, <2>2, <2>3, <2>4, ButtonPromises DEF D!padVars
  <2> QED BY <1>1, <2>1, <2>5, TableCarried DEF QueueInv
<1> QED BY <1>2, <1>3, <1>4 DEF D!PadsMove, D!World

\* The other steps, which leave the gamepads alone.
LEMMA OthersKeepPads ==
  ASSUME SdlInv,
         \/ D!SetUp \/ D!Submit \/ D!SubmitNothing \/ D!ConnectionTerminated \/ D!Input
         \/ D!FrameEvent \/ D!Upload \/ D!QuitEvent \/ D!InputEvent \/ D!Close
  PROVE  TableInv' /\ QueueInv'
<1>1. /\ queue \in Seq(D!Event) /\ Len(queue) <= QueueSize /\ lost \in BOOLEAN
      /\ TableInv
      /\ ~lost => Promises
  BY SdlBounds DEF SdlInv, D!TypeOK, QueueInv
<1>2. CASE D!SetUp
  <2>1. PICK n \in D!Pads \cup {0} : D!sdlinput_init(n)
    BY <1>2 DEF D!SetUp
  <2>2. lpc' # "done"
    BY <1>2 DEF D!SetUp
  <2> QED BY <2>1, <2>2, SetUpTable, SetUpPromises DEF QueueInv
<1>3. ASSUME NEW e \in D!Event, e.type \notin {"added", "removed", "button"}, D!PushTo(queue, e),
             e.type # "input" \/ ByUser(queue) = {},
             UNCHANGED D!pads, UNCHANGED lpc
      PROVE  TableInv' /\ QueueInv'
  <2>1. UNCHANGED <<plugs, attached, refs, gamepads, sdl_gamepads, lpc>> /\ UNCHANGED D!padVars
    BY <1>3 DEF D!pads, D!padVars
  <2>2. ~lost' => ~lost /\ queue' = Append(queue, e)
    BY <1>1, <1>3, PushedTo
  <2>3. ~lost' => Promises'
    BY <1>1, <1>3, <2>1, <2>2, OtherEvent
  <2> QED BY <1>1, <2>1, <2>3, TableCarried DEF QueueInv
<1>4. CASE D!Submit
  <2> DEFINE e == [type |-> "frame", entry |-> next_frame]
  <2>1. next_frame \in D!Entries
    BY DEF SdlInv, D!TypeOK, D!FramesTypeOK
  <2>2. e \in D!Event /\ e.type = "frame"
    BY <2>1 DEF D!Event
  <2>3. D!PushTo(queue, e) /\ UNCHANGED D!pads /\ UNCHANGED lpc
    BY <1>4 DEF D!Submit, D!PushEvent, D!loopVars
  <2> HIDE DEF e
  <2> QED BY <1>3, <2>2, <2>3
<1>5. CASE D!ConnectionTerminated
  <2> DEFINE e == [type |-> "quit"]
  <2>2. e \in D!Event /\ e.type = "quit"
    BY DEF D!Event
  <2>3. D!PushTo(queue, e) /\ UNCHANGED D!pads /\ UNCHANGED lpc
    BY <1>5 DEF D!ConnectionTerminated, D!PushEvent, D!loopVars
  <2> HIDE DEF e
  <2> QED BY <1>3, <2>2, <2>3
<1>6. CASE D!Input
  <2> DEFINE e == [type |-> "input"]
  <2>2. e \in D!Event /\ e.type = "input"
    BY DEF D!Event
  <2>3. D!PushTo(queue, e) /\ UNCHANGED D!pads /\ UNCHANGED lpc /\ ByUser(queue) = {}
    BY <1>6 DEF D!Input, D!PushEvent, D!loopVars, ByUser
  <2> HIDE DEF e
  <2> QED BY <1>3, <2>2, <2>3
<1>7. CASE D!FrameEvent \/ D!QuitEvent \/ D!InputEvent
  <2>1. /\ UNCHANGED D!pads /\ UNCHANGED lost /\ lpc = "wait" /\ queue # <<>> /\ queue' = Tail(queue)
        /\ Head(queue).type \notin {"added", "removed", "button"}
    BY <1>7 DEF D!FrameEvent, D!QuitEvent, D!InputEvent, D!First
  <2>2. UNCHANGED <<plugs, attached, refs, gamepads, sdl_gamepads>> /\ UNCHANGED D!padVars
    BY <2>1 DEF D!pads, D!padVars
  <2>3. ~lost => Promises'
    BY <1>1, <2>1, <2>2, OtherRead
  <2> QED BY <1>1, <2>1, <2>2, <2>3, TableCarried DEF QueueInv
<1>8. CASE D!SubmitNothing \/ D!Upload \/ D!Close
  <2>1. UNCHANGED D!pads /\ UNCHANGED <<queue, lost>> /\ (lpc = "done" => lpc' = "done")
    BY <1>8 DEF D!SubmitNothing, D!Upload, D!Close, D!loopVars
  <2>2. UNCHANGED <<plugs, attached, refs, gamepads, sdl_gamepads>> /\ UNCHANGED D!padVars
    BY <2>1 DEF D!pads, D!padVars
  <2>3. ~lost => Promises'
    <3>1. Promises => AddedOnce(queue) /\ UserOnce(queue)
      BY DEF Promises, Announced, Used
    <3>2. queue' = queue
      BY <2>1
    <3> QED BY <1>1, <2>1, <2>2, <3>1, <3>2, PromisesKept
  <2> QED BY <1>1, <2>1, <2>2, <2>3, TableCarried DEF QueueInv
<1> QED BY <1>2, <1>4, <1>5, <1>6, <1>7, <1>8

LEMMA EventsTyped ==
  ASSUME D!TypeOK, D!Next
  PROVE  queue' \in Seq(D!Event) /\ Len(queue') <= QueueSize /\ lost' \in BOOLEAN
<1>1. /\ queue \in Seq(D!Event) /\ Len(queue) <= QueueSize /\ lost \in BOOLEAN /\ next_frame \in D!Entries
      /\ plugs \in Nat
  BY SdlBounds DEF D!TypeOK, D!FramesTypeOK, D!InputTypeOK
<1>2. ASSUME NEW q \in Seq(D!Event), Len(q) <= QueueSize, NEW e \in D!Event, D!PushTo(q, e)
      PROVE  queue' \in Seq(D!Event) /\ Len(queue') <= QueueSize /\ lost' \in BOOLEAN
  BY <1>1, <1>2, PushedTo
<1>3. CASE D!SetUp
  <2>1. PICK n \in D!Pads \cup {0} : D!sdlinput_init(n)
    BY <1>3 DEF D!SetUp
  <2>2. n \in Nat /\ n <= MaxPlugs /\ MaxPlugs \in Nat
    BY SdlBounds
  <2>3. lost' = (n > QueueSize) /\ queue' = [p \in {o \in 1 .. n : o <= QueueSize} |-> D!Added(p)]
    BY <2>1 DEF D!sdlinput_init
  <2> DEFINE m == IF n <= QueueSize THEN n ELSE QueueSize
  <2>4. {o \in 1 .. n : o <= QueueSize} = 1 .. m /\ m \in Nat /\ m <= QueueSize /\ m <= n
    BY <2>2, SdlBounds
  <2> HIDE DEF m
  <2>5. \A p \in 1 .. m : D!Added(p) \in D!Event
    BY <2>2, <2>4, SdlBounds DEF D!Event, D!PadEvent, D!Added
  <2>6. queue' = [p \in 1 .. m |-> D!Added(p)]
    BY <2>3, <2>4
  <2>7. queue' \in Seq(D!Event) /\ Len(queue') = m
    BY <2>4, <2>5, <2>6
  <2>8. lost' \in BOOLEAN
    BY <2>3
  <2> QED BY <2>4, <2>7, <2>8
<1>4. CASE D!Submit
  <2>1. [type |-> "frame", entry |-> next_frame] \in D!Event
    BY <1>1 DEF D!Event
  <2> QED BY <1>1, <1>2, <1>4, <2>1 DEF D!Submit, D!PushEvent
<1>5. CASE D!ConnectionTerminated
  <2>1. [type |-> "quit"] \in D!Event
    BY DEF D!Event
  <2> QED BY <1>1, <1>2, <1>5, <2>1 DEF D!ConnectionTerminated, D!PushEvent
<1>6. CASE D!Input
  <2>1. [type |-> "input"] \in D!Event
    BY DEF D!Event
  <2> QED BY <1>1, <1>2, <1>6, <2>1 DEF D!Input, D!PushEvent
<1>7. CASE D!Attach
  <2>1. D!Added(plugs + 1) \in D!Event
    BY <1>1, <1>7, SdlBounds DEF D!Attach, D!Event, D!PadEvent, D!Added
  <2> QED BY <1>1, <1>2, <1>7, <2>1 DEF D!Attach, D!PushEvent
<1>8. ASSUME NEW p \in D!Pads, D!Detach(p)
      PROVE  queue' \in Seq(D!Event) /\ Len(queue') <= QueueSize /\ lost' \in BOOLEAN
  <2>1. D!Withdrawn(p) \in Seq(D!Event) /\ Len(D!Withdrawn(p)) <= Len(queue)
    BY <1>1, Withdrawing
  <2>2. Len(D!Withdrawn(p)) <= QueueSize
    <3>1. Len(D!Withdrawn(p)) \in Nat /\ Len(queue) \in Nat
      BY <1>1, <2>1
    <3> QED BY <1>1, <2>1, <3>1, SdlBounds
  <2>3. [type |-> "removed", pad |-> p] \in D!Event
    BY DEF D!Event, D!PadEvent
  <2>4. \/ D!PushTo(D!Withdrawn(p), [type |-> "removed", pad |-> p])
        \/ queue' = D!Withdrawn(p) /\ lost' = lost
    BY <1>8 DEF D!Detach
  <2> QED BY <1>1, <1>2, <2>1, <2>2, <2>3, <2>4
<1>9. ASSUME NEW p \in D!Pads, NEW b \in Buttons, D!Button(p, b)
      PROVE  queue' \in Seq(D!Event) /\ Len(queue') <= QueueSize /\ lost' \in BOOLEAN
  <2> DEFINE d == [type |-> "button", pad |-> p, button |-> b, down |-> b \notin attached[p]]
  <2>1. d \in D!Event
    BY DEF D!Event, D!PadEvent
  <2>2. D!PushTo(queue, d)
    BY <1>9 DEF D!Button, D!PushEvent
  <2> HIDE DEF d
  <2> QED BY <1>1, <1>2, <2>1, <2>2
<1>10. CASE D!SubmitNothing \/ D!Upload \/ D!Close
  BY <1>1, <1>10 DEF D!SubmitNothing, D!Upload, D!Close
<1>11. CASE D!FrameEvent \/ D!QuitEvent \/ D!InputEvent \/ D!PadEventRead \/ D!PadNotOpened
  <2>1. queue # <<>> /\ queue' = Tail(queue) /\ lost' = lost
    BY <1>11 DEF D!FrameEvent, D!QuitEvent, D!InputEvent, D!PadEventRead, D!PadNotOpened, D!First
  <2>2. Tail(queue) \in Seq(D!Event) /\ Len(Tail(queue)) = Len(queue) - 1 /\ Len(queue) \in Nat
    BY <1>1, <2>1
  <2> QED BY <1>1, <2>1, <2>2, SdlBounds
<1> QED BY <1>3, <1>4, <1>5, <1>6, <1>7, <1>8, <1>9, <1>10, <1>11 DEF D!Next, D!Loop, D!PadsMove, D!World

LEMMA SdlTyped ==
  ASSUME D!TypeOK, NumbersInv, D!Next, TableInv'
  PROVE  D!TypeOK'
<1>0. /\ dec_frames \in [D!Entries -> 0 .. MaxFrames] /\ next_frame \in D!Entries /\ decoded \in 0 .. MaxFrames
      /\ plugs \in 0 .. MaxPlugs /\ DOMAIN attached \subseteq 1 .. plugs
      /\ sdlCurrentFrame \in 0 .. MaxFrames /\ sdlNextFrame \in 0 .. MaxFrames
      /\ lpc \in {"setup", "wait", "upload", "done"} /\ entry \in D!Entries /\ shown \in 0 .. MaxFrames
      /\ conn \in {"up", "terminated", "closed"} /\ sdlNextFrame = decoded
  BY DEF D!TypeOK, D!FramesTypeOK, D!InputTypeOK, NumbersInv
<1>1. D!FramesTypeOK' /\ sdlNextFrame' \in 0 .. MaxFrames
  <2>1. CASE D!Submit
    <3>1. /\ decoded < MaxFrames /\ decoded' = decoded + 1 /\ sdlNextFrame' = decoded + 1
          /\ dec_frames' = [dec_frames EXCEPT ![next_frame] = decoded + 1]
          /\ next_frame' = D!NextEntry
      BY <1>0, <2>1 DEF D!Submit, D!GetFrame
    <3>2. decoded + 1 \in 0 .. MaxFrames
      BY <1>0, <3>1, SdlBounds
    <3>3. next_frame' \in D!Entries
      BY <1>0, <3>1, RingTurns
    <3>4. dec_frames' \in [D!Entries -> 0 .. MaxFrames]
      BY <1>0, <3>1, <3>2
    <3> QED BY <3>1, <3>2, <3>3, <3>4 DEF D!FramesTypeOK
  <2>2. CASE D!SubmitNothing
    <3>1. /\ dec_frames' = [dec_frames EXCEPT ![next_frame] = D!NoFrame]
          /\ UNCHANGED <<next_frame, decoded, sdlNextFrame>>
      BY <2>2 DEF D!SubmitNothing, D!GetNoFrame, D!counters
    <3>2. D!NoFrame \in 0 .. MaxFrames
      BY SdlBounds
    <3>3. dec_frames' \in [D!Entries -> 0 .. MaxFrames]
      BY <1>0, <3>1, <3>2
    <3> QED BY <1>0, <3>1, <3>3 DEF D!FramesTypeOK
  <2>3. CASE UNCHANGED <<D!frameVars, sdlNextFrame>>
    BY <1>0, <2>3 DEF D!frameVars, D!FramesTypeOK
  <2> QED BY <2>1, <2>2, <2>3
          DEF D!Next, D!Loop, D!SetUp, D!ConnectionTerminated, D!Input, D!PadsMove, D!FrameEvent, D!Upload,
              D!QuitEvent, D!InputEvent, D!PadEventRead, D!PadNotOpened, D!Close, D!counters
<1>2. sdlCurrentFrame' \in 0 .. MaxFrames
  <2>1. CASE D!FrameEvent
    BY <2>1, FrameEventNumbers
  <2>2. CASE UNCHANGED sdlCurrentFrame
    BY <1>0, <2>2
  <2> QED BY <2>1, <2>2
          DEF D!Next, D!Loop, D!SetUp, D!Submit, D!SubmitNothing, D!ConnectionTerminated, D!Input, D!PadsMove,
              D!Upload, D!QuitEvent, D!InputEvent, D!PadEventRead, D!PadNotOpened, D!Close, D!counters
<1>3. plugs' \in 0 .. MaxPlugs /\ DOMAIN attached' \subseteq 1 .. plugs'
  <2>1. CASE D!SetUp
    <3>1. PICK n \in D!Pads \cup {0} : plugs' = n /\ attached' = [p \in 1 .. n |-> {}]
      BY <2>1 DEF D!SetUp, D!sdlinput_init
    <3>2. n \in 0 .. MaxPlugs
      BY SdlBounds
    <3> QED BY <3>1, <3>2
  <2>2. CASE D!Attach
    <3>1. /\ plugs < MaxPlugs /\ plugs' = plugs + 1 /\ DOMAIN attached' = DOMAIN attached \cup {plugs + 1}
      BY <2>2 DEF D!Attach
    <3>2. plugs' \in 0 .. MaxPlugs /\ plugs + 1 \in 1 .. plugs'
      BY <1>0, <3>1, SdlBounds
    <3>3. \A p \in 1 .. plugs : p \in 1 .. plugs'
      BY <1>0, <3>1, SdlBounds
    <3> QED BY <1>0, <3>1, <3>2, <3>3
  <2>3. ASSUME NEW p \in D!Pads, D!Detach(p) PROVE plugs' = plugs /\ DOMAIN attached' \subseteq DOMAIN attached
    BY <2>3 DEF D!Detach
  <2>4. ASSUME NEW p \in D!Pads, NEW b \in Buttons, D!Button(p, b)
        PROVE plugs' = plugs /\ DOMAIN attached' = DOMAIN attached
    BY <2>4 DEF D!Button
  <2>5. CASE UNCHANGED <<plugs, attached>>
    BY <1>0, <2>5
  <2>6. CASE D!PadsMove
    BY <1>0, <2>2, <2>3, <2>4, <2>6 DEF D!PadsMove, D!World
  <2>7. CASE D!PadNotOpened
    <3>1. plugs' = plugs /\ DOMAIN attached' \subseteq DOMAIN attached
      BY <2>7 DEF D!PadNotOpened, D!OpenFails
    <3> QED BY <1>0, <3>1
  <2> QED BY <2>1, <2>5, <2>6, <2>7
          DEF D!Next, D!Loop, D!Submit, D!SubmitNothing, D!ConnectionTerminated, D!Input, D!FrameEvent, D!Upload,
              D!QuitEvent, D!InputEvent, D!PadEventRead, D!Close, D!pads
<1>4. /\ lpc' \in {"setup", "wait", "upload", "done"} /\ entry' \in D!Entries /\ shown' \in 0 .. MaxFrames
      /\ conn' \in {"up", "terminated", "closed"}
  <2>1. CASE D!FrameEvent
    <3>1. /\ queue # <<>> /\ Head(queue).type = "frame" /\ UNCHANGED <<shown, conn>>
          /\ \/ UNCHANGED <<lpc, entry>>
             \/ lpc' = "upload" /\ entry' = Head(queue).entry
      BY <2>1 DEF D!FrameEvent, D!First
    <3>2. Head(queue).entry \in D!Entries
      BY <3>1, HeadEvent, EventKinds DEF D!Event, D!PadEvent
    <3> QED BY <1>0, <3>1, <3>2
  <2>2. CASE D!Upload
    <3>1. dec_frames[entry] \in 0 .. MaxFrames
      BY <1>0
    <3>2. shown' \in {shown, dec_frames[entry]} /\ lpc' = "wait" /\ UNCHANGED <<entry, conn>>
      BY <2>2 DEF D!Upload
    <3> QED BY <1>0, <3>1, <3>2
  <2>3. CASE D!SetUp \/ D!QuitEvent \/ D!InputEvent \/ D!PadEventRead
    <3>1. lpc' \in {"wait", "done"} /\ UNCHANGED <<entry, shown, conn>>
      BY <2>3 DEF D!SetUp, D!QuitEvent, D!InputEvent, D!PadEventRead
    <3> QED BY <1>0, <3>1
  <2>4. CASE D!Submit \/ D!SubmitNothing \/ D!Input \/ D!PadsMove \/ D!PadNotOpened
    BY <1>0, <2>4 DEF D!Submit, D!SubmitNothing, D!Input, D!PadsMove, D!PadNotOpened, D!loopVars
  <2>5. CASE D!ConnectionTerminated
    BY <1>0, <2>5 DEF D!ConnectionTerminated, D!loopVars
  <2>6. CASE D!Close
    BY <1>0, <2>6 DEF D!Close, D!loopVars
  <2> QED BY <2>1, <2>2, <2>3, <2>4, <2>5, <2>6 DEF D!Next, D!Loop
<1>5. D!InputTypeOK'
  <2>1. /\ refs' \in [D!Pads -> Nat] /\ gamepads' \in [D!Indices -> Gamepad] /\ sdl_gamepads' \in Nat
        /\ activeGamepadMask' = InUse(gamepads') /\ host'.mask = InUse(gamepads')
    BY DEF TableInv, TableTyped, MaskInv
  <2>2. InUse(gamepads') \subseteq D!Indices
    BY DEF InUse
  <2> QED BY <1>3, <2>1, <2>2 DEF D!InputTypeOK, Gamepad
<1>6. queue' \in Seq(D!Event) /\ Len(queue') <= QueueSize /\ lost' \in BOOLEAN
  BY EventsTyped
<1> QED BY <1>1, <1>2, <1>4, <1>5, <1>6 DEF D!TypeOK

\* After sdl_init a lost event is not forgotten.
LEMMA LostStays == ASSUME D!Next, lpc' = "upload", ~lost' PROVE ~lost
<1>1. \A q, e : D!PushTo(q, e) => ~lost
  BY DEF D!PushTo
<1>2. ~D!SetUp
  BY DEF D!SetUp
<1> QED BY <1>1, <1>2
        DEF D!Next, D!Loop, D!Submit, D!SubmitNothing, D!ConnectionTerminated, D!Input, D!PadsMove, D!World,
            D!Attach, D!Detach, D!Button, D!PushEvent, D!FrameEvent, D!Upload, D!QuitEvent, D!InputEvent,
            D!PadEventRead, D!PadNotOpened, D!Close

\* What the check of an event finds.
LEMMA EventChecked ==
  ASSUME SdlInv, D!FrameEvent, ~lost
  PROVE  LET e == Head(queue).entry
             k == sdlCurrentFrame + 1 IN
         /\ k \in Nat /\ k > 0 /\ sdlCurrentFrame' = k /\ e \in D!Entries
         /\ Age(e, next_frame) \in 0 .. FrameCount - 1
         /\ \/ k <= decoded - FrameCount /\ lpc' = "wait"
            \/ decoded - Age(e, next_frame) = k /\ lpc' = "upload" /\ entry' = e
<1>0. /\ queue \in Seq(D!Event) /\ sdlCurrentFrame \in Nat /\ sdlNextFrame = decoded /\ decoded \in Nat
      /\ Numbers(queue, lost) /\ next_frame \in D!Entries /\ FrameCount \in Nat
  BY SdlBounds DEF SdlInv, D!TypeOK, D!FramesTypeOK, NumbersInv
<1>2. /\ queue # <<>> /\ Head(queue).type = "frame" /\ lpc = "wait" /\ sdlCurrentFrame' = sdlCurrentFrame + 1
      /\ \/ D!Skipped(sdlCurrentFrame + 1) /\ lpc' = "wait"
         \/ ~D!Skipped(sdlCurrentFrame + 1) /\ lpc' = "upload" /\ entry' = Head(queue).entry
  BY DEF D!FrameEvent, D!First
<1>3. /\ sdlCurrentFrame + 1 + FramesAfter(queue, 1) = decoded /\ FramesAfter(queue, 1) \in Nat
  BY <1>0, <1>2, HeadRead
<1>4. 1 \in FramesIn(queue) /\ Head(queue) = queue[1] /\ Head(queue).entry \in D!Entries
  <2>1. 1 \in DOMAIN queue /\ Head(queue) = queue[1]
    BY <1>0, <1>2
  <2>2. 1 \in FramesIn(queue)
    BY <1>2, <2>1 DEF FramesIn
  <2> QED BY <1>0, <2>1, <2>2, FrameEvents
<1> DEFINE e == Head(queue).entry
           k == sdlCurrentFrame + 1
           age == Age(e, next_frame)
<1>5. FramesAfter(queue, 1) < FrameCount => age = FramesAfter(queue, 1)
  BY <1>0, <1>4 DEF Numbers
<1>6. age \in 0 .. FrameCount - 1
  BY <1>0, <1>4, SdlBounds DEF Age
<1>7. D!Skipped(k) <=> k <= decoded - FrameCount
  BY <1>0 DEF D!Skipped, D!SDL_BUFFER_FRAMES
<1>8. k \in Nat /\ k > 0 /\ k + FramesAfter(queue, 1) = decoded
  BY <1>0, <1>3
<1> HIDE DEF k, age, e
<1>9. ASSUME ~D!Skipped(k) PROVE decoded - age = k
  <2>1. k > decoded - FrameCount
    BY <1>0, <1>7, <1>8, <1>9
  <2>2. FramesAfter(queue, 1) < FrameCount
    BY <1>0, <1>3, <1>8, <2>1
  <2> QED BY <1>0, <1>3, <1>5, <1>8, <2>2
<1>10. /\ sdlCurrentFrame' = k /\ e \in D!Entries
       /\ \/ D!Skipped(k) /\ lpc' = "wait"
          \/ ~D!Skipped(k) /\ lpc' = "upload" /\ entry' = e
  BY <1>2, <1>4 DEF k, e
<1>11. /\ k \in Nat /\ k > 0 /\ sdlCurrentFrame' = k /\ e \in D!Entries
       /\ age \in 0 .. FrameCount - 1
       /\ \/ k <= decoded - FrameCount /\ lpc' = "wait"
          \/ decoded - age = k /\ lpc' = "upload" /\ entry' = e
  BY <1>6, <1>7, <1>8, <1>9, <1>10
<1> QED BY <1>11 DEF k, e, age

LEMMA UploadKept ==
  ASSUME SdlInv, D!Next
  PROVE  UploadInv'
<1>0. /\ sdlCurrentFrame \in Nat /\ decoded \in Nat /\ next_frame \in D!Entries /\ entry \in D!Entries
      /\ FrameCount \in Nat /\ UploadInv
  BY SdlBounds DEF SdlInv, D!TypeOK, D!FramesTypeOK
<1>l. lpc' = "upload" /\ ~lost' => ~lost
  BY LostStays
<1>1. CASE lpc' # "upload"
  BY <1>1 DEF UploadInv
<1>2. CASE UNCHANGED <<lpc, entry, decoded, next_frame, sdlCurrentFrame>>
  BY <1>0, <1>2, <1>l DEF UploadInv
<1>3. CASE D!FrameEvent
  <2> SUFFICES ASSUME lpc' = "upload", ~lost' PROVE Age(entry', next_frame') = decoded' - sdlCurrentFrame'
    BY DEF UploadInv
  <2>1. UNCHANGED <<decoded, next_frame>>
    BY <1>3 DEF D!FrameEvent, D!frameVars
  <2>2. PICK age : age = Age(entry', next_frame)
    OBVIOUS
  <2>3. age \in Int /\ decoded - age = sdlCurrentFrame' /\ sdlCurrentFrame' \in Nat
    <3> DEFINE e == Head(queue).entry
               k == sdlCurrentFrame + 1
    <3>1. /\ k \in Nat /\ sdlCurrentFrame' = k
          /\ Age(e, next_frame) \in 0 .. FrameCount - 1
          /\ \/ lpc' = "wait"
             \/ decoded - Age(e, next_frame) = k /\ entry' = e
      BY <1>3, <1>l, EventChecked
    <3> HIDE DEF e, k
    <3> QED BY <2>2, <3>1
  <2>4. decoded \in Int /\ sdlCurrentFrame' \in Int /\ age \in Int /\ decoded - age = sdlCurrentFrame'
    BY <1>0, <2>3
  <2>5. \A d, a, c \in Int : d - a = c => a = d - c
    OBVIOUS
  <2>6. age = decoded - sdlCurrentFrame'
    BY ONLY <2>4, <2>5
  <2> QED BY <2>1, <2>2, <2>6
<1>4. CASE D!Submit
  <2> SUFFICES ASSUME lpc' = "upload", ~lost', decoded' < sdlCurrentFrame' + FrameCount
               PROVE  Age(entry', next_frame') = decoded' - sdlCurrentFrame'
    BY DEF UploadInv
  <2>1. /\ decoded' = decoded + 1 /\ next_frame' = D!NextEntry
        /\ UNCHANGED <<lpc, entry, sdlCurrentFrame>>
    BY <1>4 DEF D!Submit, D!GetFrame, D!loopVars
  <2>2. lpc = "upload" /\ ~lost /\ decoded + 1 < sdlCurrentFrame + FrameCount
    BY <1>l, <2>1
  <2>3. decoded < sdlCurrentFrame + FrameCount /\ decoded - sdlCurrentFrame < FrameCount - 1
    BY <1>0, <2>2
  <2> DEFINE age == Age(entry, next_frame)
  <2>4. age = decoded - sdlCurrentFrame
    BY <1>0, <2>2, <2>3 DEF UploadInv
  <2>5. age < FrameCount - 1
    BY <2>3, <2>4
  <2>6. entry # next_frame
    BY <1>0, <2>1, <2>5, RingTurns
  <2>7. Age(entry, next_frame') = age + 1
    BY <1>0, <2>1, <2>6, RingTurns
  <2> HIDE DEF age
  <2>8. age + 1 = decoded' - sdlCurrentFrame
    BY <1>0, <2>1, <2>4
  <2> QED BY <2>1, <2>7, <2>8
<1>5. \/ lpc' # "upload"
      \/ UNCHANGED <<lpc, entry, decoded, next_frame, sdlCurrentFrame>>
      \/ D!FrameEvent
      \/ D!Submit
  BY DEF D!Next, D!Loop, D!SetUp, D!SubmitNothing, D!GetNoFrame, D!ConnectionTerminated, D!Input, D!PadsMove,
         D!Upload, D!QuitEvent, D!InputEvent, D!PadEventRead, D!PadNotOpened, D!Close, D!loopVars, D!counters,
         D!frameVars
<1> QED BY <1>1, <1>2, <1>3, <1>4, <1>5

LEMMA SdlStep == ASSUME SdlInv, D!Next PROVE SdlInv'
<1>1. TableInv' /\ QueueInv'
  BY PadRead, NotOpened, PadsMoved, OthersKeepPads DEF D!Next, D!Loop
<1>2. NumbersInv' /\ D!TypeOK'
  BY <1>1, NumbersStep, SdlTyped DEF SdlInv
<1>3. SetupInv'
  <2>1. lpc' # "setup" \/ UNCHANGED <<lpc, queue, decoded, sdlCurrentFrame, plugs, attached>>
    BY DEF D!Next, D!Loop, D!SetUp, D!Submit, D!SubmitNothing, D!ConnectionTerminated, D!Input, D!PadsMove,
           D!FrameEvent, D!Upload, D!QuitEvent, D!InputEvent, D!PadEventRead, D!PadNotOpened, D!Close, D!First,
           D!loopVars
  <2> QED BY <2>1 DEF SdlInv, SetupInv
<1> QED BY <1>1, <1>2, <1>3, UploadKept DEF SdlInv

LEMMA SdlInitially == ASSUME D!Init PROVE SdlInv
<1>0. /\ dec_frames = [e \in D!Entries |-> D!NoFrame] /\ next_frame = 0 /\ decoded = 0
      /\ plugs = 0 /\ attached = <<>> /\ queue = <<>> /\ lost = FALSE
      /\ refs = [p \in D!Pads |-> 0] /\ gamepads = [i \in D!Indices |-> D!Unused]
      /\ activeGamepadMask = {} /\ sdl_gamepads = 0
      /\ host = [mask |-> {}, buttons |-> [i \in D!Indices |-> {}]]
      /\ sdlCurrentFrame = 0 /\ sdlNextFrame = 0 /\ lpc = "setup" /\ entry = 0 /\ shown = 0 /\ conn = "up"
  BY DEF D!Init, D!FramesInit, D!InputInit
<1>1. D!Unused \in Gamepad /\ D!Unused.sdl_id = D!None /\ D!NoFrame = 0
  BY DEF D!Unused, Gamepad, D!NoFrame
<1>2. InUse(gamepads) = {} /\ \A p : HeldBy(gamepads, p) = {} /\ Claims(gamepads, p) = {}
  BY <1>0, <1>1 DEF InUse, HeldBy, Claims
<1>3. Cardinality({}) = 0
  BY FS_EmptySet
<1>4. SetupInv
  BY <1>0 DEF SetupInv
<1>5. TableInv
  <2>1. host \in HostView /\ host.mask = {} /\ \A i \in D!Indices : host.buttons[i] = {}
    <3>1. [i \in D!Indices |-> {}] \in [D!Indices -> SUBSET Buttons]
      OBVIOUS
    <3>2. \A i \in D!Indices : [j \in D!Indices |-> {}][i] = {}
      OBVIOUS
    <3> QED BY <1>0, <3>1, <3>2 DEF HostView
  <2>2. TableTyped
    BY <1>0, <1>1, <2>1 DEF TableTyped
  <2>3. MaskInv
    BY <1>0, <1>2, <2>1 DEF MaskInv
  <2>4. RefsInv
    <3>1. \A p : Cardinality(Claims(gamepads, p)) = 0 /\ Cardinality(HeldBy(gamepads, p)) = 0
      BY <1>2, <1>3
    <3>2. Cardinality(InUse(gamepads)) = 0 /\ sdl_gamepads = 0 /\ \A p \in D!Pads : refs[p] = 0
      BY <1>0, <1>2, <1>3
    <3> QED BY <1>2, <3>1, <3>2 DEF RefsInv, OneEach
  <2> QED BY <2>2, <2>3, <2>4 DEF TableInv
<1>6. DOMAIN queue = {} /\ DOMAIN attached = {} /\ \A e : ~Has(queue, e)
  BY <1>0 DEF Has
<1>7. QueueInv
  BY <1>0, <1>2, <1>6 DEF QueueInv, Promises, Announced, Left, Used, Followed, Listed, Waiting, NotYet,
     AddedOnce, UserOnce, ByUser
<1>8. NumbersInv
  <2>1. FramesIn(queue) = {} /\ {j \in FramesIn(queue) : j > 0} = {}
    BY <1>6 DEF FramesIn
  <2>2. FramesAfter(queue, 0) = 0
    BY <1>3, <2>1 DEF FramesAfter
  <2> QED BY <1>0, <2>1, <2>2 DEF NumbersInv, Numbers
<1>9. D!TypeOK
  <2>1. D!FramesTypeOK
    BY <1>0, <1>1, SdlBounds DEF D!FramesTypeOK
  <2>2. D!InputTypeOK
    BY <1>0, <1>1, <1>6, SdlBounds DEF D!InputTypeOK, Gamepad
  <2>3. queue \in Seq(D!Event) /\ Len(queue) <= QueueSize
    BY <1>0, SdlBounds
  <2>4. 0 \in 0 .. MaxFrames /\ 0 \in D!Entries
    BY SdlBounds
  <2>5. /\ sdlCurrentFrame = 0 /\ sdlNextFrame = 0 /\ lpc = "setup" /\ entry = 0 /\ shown = 0 /\ conn = "up"
        /\ lost = FALSE
    BY <1>0
  <2> QED BY ONLY <2>1, <2>2, <2>3, <2>4, <2>5 DEF D!TypeOK
<1>10. UploadInv
  BY <1>0 DEF UploadInv
<1> QED BY <1>4, <1>5, <1>7, <1>8, <1>9, <1>10 DEF SdlInv

LEMMA SdlSees == ASSUME SdlInv PROVE D!HostSeesPads
<1>1. /\ D!Initialized = InUse(gamepads)
      /\ \A p : D!Holding(p) = HeldBy(gamepads, p)
      /\ D!Overflown <=> sdl_gamepads # Cardinality(InUse(gamepads))
  BY TableNames
<1>2. D!TypeOK /\ TableInv /\ (~lost => Promises) /\ DOMAIN attached \subseteq 1 .. plugs /\ plugs \in 0 .. MaxPlugs
  BY DEF SdlInv, QueueInv, D!TypeOK, D!InputTypeOK
<1>3. ASSUME D!PadsRead, lpc \notin {"setup", "done"}, ~lost
      PROVE  /\ host.mask = InUse(gamepads)
             /\ \A i \in InUse(gamepads) : LET p == gamepads[i].sdl_id IN
                  p \in DOMAIN attached /\ host.buttons[i] = attached[p]
             /\ \/ sdl_gamepads # Cardinality(InUse(gamepads))
                \/ \A p \in DOMAIN attached : HeldBy(gamepads, p) # {}
  <2>1. \A p \in D!Pads : /\ ~Has(queue, D!Added(p)) /\ ~Has(queue, Removed(p))
                          /\ \A e \in ButtonsOf(p) : ~Has(queue, e)
    BY <1>3, PadEvents DEF D!PadsRead, Has
  <2>2. host.mask = InUse(gamepads) /\ \A i \in InUse(gamepads) : host.buttons[i] = gamepads[i].buttons
    BY <1>2, <1>3 DEF TableInv, MaskInv
  <2>3. ASSUME NEW i \in InUse(gamepads)
        PROVE gamepads[i].sdl_id \in DOMAIN attached /\ gamepads[i].buttons = attached[gamepads[i].sdl_id]
    <3>1. gamepads[i].sdl_id \in D!Pads
      BY <1>2, EntryPad
    <3>2. \/ Has(queue, Removed(gamepads[i].sdl_id))
          \/ /\ gamepads[i].sdl_id \in DOMAIN attached
             /\ Matches(queue, gamepads[i].sdl_id, attached[gamepads[i].sdl_id], gamepads[i].buttons)
      BY <1>2, <1>3 DEF Promises, Followed
    <3> QED BY <2>1, <3>1, <3>2 DEF Matches
  <2>4. \A p \in DOMAIN attached : p \in D!Pads
    BY <1>2, SdlBounds
  <2>5. \/ sdl_gamepads # Cardinality(InUse(gamepads))
        \/ \A p \in DOMAIN attached : HeldBy(gamepads, p) # {}
    BY <1>2, <1>3, <2>1, <2>4 DEF Promises, Listed
  <2> QED BY <2>2, <2>3, <2>5
<1>4. \/ sdl_gamepads # Cardinality(InUse(gamepads))
      \/ \A p \in D!Pads : refs[p] = Cardinality(HeldBy(gamepads, p))
  BY <1>2 DEF TableInv, RefsInv
<1> QED BY <1>1, <1>2, <1>3, <1>4, SdlCardinality DEF D!HostSeesPads

LEMMA QueueCounted ==
  ASSUME NEW q, DOMAIN q \subseteq Nat \ {0}
  PROVE  D!Cardinality({k \in DOMAIN q : q[k].type = "frame"}) = FramesAfter(q, 0)
<1>1. {k \in DOMAIN q : q[k].type = "frame"} = {j \in FramesIn(q) : j > 0}
  BY DEF FramesIn
<1> QED BY <1>1, SdlCardinality DEF FramesAfter

\* What is shown: the frame of the event, or one that was decoded over it.
LEMMA SdlShows ==
  ASSUME SdlInv, D!Next, ~lost, lpc = "upload", lpc' # "upload", dec_frames[entry] # D!NoFrame
  PROVE  IF decoded < sdlCurrentFrame + FrameCount THEN shown' = sdlCurrentFrame
                                                   ELSE shown' > sdlCurrentFrame
<1>0. /\ sdlCurrentFrame \in Nat /\ decoded \in Nat /\ FrameCount \in Nat /\ entry \in D!Entries
      /\ next_frame \in D!Entries /\ UploadInv
      /\ \A e \in D!Entries : dec_frames[e] \in {D!NoFrame, decoded - Age(e, next_frame)}
  BY SdlBounds DEF SdlInv, D!TypeOK, D!FramesTypeOK, NumbersInv
<1>1. D!Upload
  BY DEF D!Next, D!Loop, D!SetUp, D!Submit, D!SubmitNothing, D!ConnectionTerminated, D!Input, D!PadsMove,
         D!FrameEvent, D!QuitEvent, D!InputEvent, D!PadEventRead, D!PadNotOpened, D!Close, D!First, D!loopVars
<1>2. shown' = dec_frames[entry]
  BY <1>1 DEF D!Upload
<1> DEFINE age == Age(entry, next_frame)
<1>3. shown' = decoded - age /\ age \in 0 .. FrameCount - 1
  <2>1. age \in 0 .. FrameCount - 1
    BY <1>0, SdlBounds DEF Age
  <2> QED BY <1>0, <1>2, <2>1
<1>4. decoded < sdlCurrentFrame + FrameCount => age = decoded - sdlCurrentFrame
  BY <1>0 DEF UploadInv
<1> HIDE DEF age
<1>5. CASE decoded < sdlCurrentFrame + FrameCount
  <2>1. shown' = sdlCurrentFrame
    BY <1>0, <1>3, <1>4, <1>5
  <2> QED BY <1>5, <2>1
<1>6. CASE ~(decoded < sdlCurrentFrame + FrameCount)
  <2>1. shown' > sdlCurrentFrame
    BY <1>0, <1>3, <1>6
  <2> QED BY <1>6, <2>1
<1> QED BY <1>5, <1>6

LEMMA SdlSkips ==
  ASSUME SdlInv, D!Next, ~lost'
  PROVE  /\ D!NumbersAgree'
         /\ sdlCurrentFrame' = sdlCurrentFrame + 1 =>
              LET there == dec_frames[Head(queue).entry] IN
              IF lpc' = "upload" THEN there \in {sdlCurrentFrame', D!NoFrame}
                                 ELSE there # sdlCurrentFrame'
         /\ lpc = "upload" /\ lpc' # "upload" /\ dec_frames[entry] # D!NoFrame =>
              IF decoded < sdlCurrentFrame + FrameCount THEN shown' = sdlCurrentFrame
                                                        ELSE shown' > sdlCurrentFrame
<1>1. SdlInv'
  BY SdlStep
<1>2. D!NumbersAgree'
  <2>1. sdlCurrentFrame' + FramesAfter(queue', 0) = sdlNextFrame'
    BY <1>1 DEF SdlInv, NumbersInv, Numbers
  <2>2. queue' \in Seq(D!Event)
    BY <1>1 DEF SdlInv, D!TypeOK
  <2>3. DOMAIN queue' \subseteq Nat \ {0}
    BY <2>2
  <2>4. D!Cardinality({k \in DOMAIN queue' : queue'[k].type = "frame"}) = FramesAfter(queue', 0)
    BY <2>3, QueueCounted
  <2> QED BY <2>1, <2>4 DEF D!NumbersAgree, D!FramesQueued
<1>3. ASSUME sdlCurrentFrame' = sdlCurrentFrame + 1
      PROVE  LET there == dec_frames[Head(queue).entry] IN
             IF lpc' = "upload" THEN there \in {sdlCurrentFrame', D!NoFrame}
                                ELSE there # sdlCurrentFrame'
  <2>0. /\ sdlCurrentFrame \in Nat /\ decoded \in Nat /\ FrameCount \in Nat /\ D!NoFrame = 0
        /\ \A e \in D!Entries : dec_frames[e] \in {D!NoFrame, decoded - Age(e, next_frame)}
    BY SdlBounds DEF SdlInv, D!TypeOK, D!FramesTypeOK, NumbersInv
  <2>1. D!FrameEvent
    <3>1. sdlCurrentFrame' # sdlCurrentFrame
      BY <1>3, <2>0
    <3> QED BY <3>1
            DEF D!Next, D!Loop, D!SetUp, D!Submit, D!SubmitNothing, D!ConnectionTerminated, D!Input, D!PadsMove,
                D!Upload, D!QuitEvent, D!InputEvent, D!PadEventRead, D!PadNotOpened, D!Close, D!counters
  <2>2. ~lost
    BY <2>1 DEF D!FrameEvent
  <2> DEFINE e == Head(queue).entry
             k == sdlCurrentFrame + 1
             age == Age(e, next_frame)
  <2>3. /\ k \in Nat /\ k > 0 /\ sdlCurrentFrame' = k /\ e \in D!Entries /\ age \in 0 .. FrameCount - 1
        /\ \/ k <= decoded - FrameCount /\ lpc' = "wait"
           \/ decoded - age = k /\ lpc' = "upload"
    BY <2>1, <2>2, EventChecked
  <2>4. dec_frames[e] \in {D!NoFrame, decoded - age}
    BY <2>0, <2>3
  <2> HIDE DEF e, k, age
  <2>5. CASE k <= decoded - FrameCount /\ lpc' = "wait"
    <3>1. decoded - age # k
      BY <2>0, <2>3, <2>5
    <3>2. dec_frames[e] # k
      BY <2>0, <2>3, <2>4, <3>1
    <3> QED BY <2>3, <2>5, <3>2 DEF e
  <2>6. CASE decoded - age = k /\ lpc' = "upload"
    BY <2>3, <2>4, <2>6 DEF e
  <2> QED BY <2>3, <2>5, <2>6
<1>4. ASSUME lpc = "upload", lpc' # "upload", dec_frames[entry] # D!NoFrame
      PROVE  IF decoded < sdlCurrentFrame + FrameCount THEN shown' = sdlCurrentFrame
                                                       ELSE shown' > sdlCurrentFrame
  <2>1. D!Upload
    BY <1>4 DEF D!Next, D!Loop, D!SetUp, D!Submit, D!SubmitNothing, D!ConnectionTerminated, D!Input, D!PadsMove,
       D!FrameEvent, D!QuitEvent, D!InputEvent, D!PadEventRead, D!PadNotOpened, D!Close, D!First, D!loopVars
  <2>2. ~lost
    BY <2>1 DEF D!Upload
  <2> QED BY <1>4, <2>2, SdlShows
<1> QED BY <1>2, <1>3, <1>4

-----------------------------------------------------------------------------
(* The platform within the program.                                        *)

SdlStreamInv ==
  /\ renderer = "none" => D!Init
  /\ renderer = "SDL" => SdlInv
  /\ renderer \notin {"none", "SDL"} =>
       queue = <<>> /\ sdlCurrentFrame = 0 /\ sdlNextFrame = 0 /\ lpc = "setup"

LEMMA SdlCarried ==
  ASSUME UNCHANGED D!vars
  PROVE  (D!Init => D!Init') /\ (SdlInv => SdlInv')
<1>1. /\ UNCHANGED <<dec_frames, next_frame, decoded, queue, lost, plugs, attached>>
      /\ UNCHANGED <<refs, gamepads, activeGamepadMask, sdl_gamepads, host>>
      /\ UNCHANGED <<sdlCurrentFrame, sdlNextFrame, lpc, entry, shown, conn>>
  BY DEF D!vars, D!frameVars, D!inputVars, D!padVars, D!counters, D!loopVars
<1>2. D!Init => D!Init'
  BY <1>1 DEF D!Init, D!FramesInit, D!InputInit
<1>3. D!TypeOK => D!TypeOK'
  BY <1>1 DEF D!TypeOK, D!FramesTypeOK, D!InputTypeOK
<1>4. (NumbersInv => NumbersInv') /\ (SetupInv => SetupInv')
  BY <1>1 DEF NumbersInv, Numbers, SetupInv
<1>5. TableInv => TableInv'
  BY <1>1 DEF TableInv, TableTyped, MaskInv, RefsInv
<1>6. QueueInv => QueueInv'
  BY <1>1 DEF QueueInv, Promises, Announced, Left, Used, Followed, Listed, Waiting, Unseen, Surplus, NotYet
<1>7. UploadInv => UploadInv'
  BY <1>1 DEF UploadInv
<1> QED BY <1>2, <1>3, <1>4, <1>5, <1>6, <1>7 DEF SdlInv

\* What a step of the program is to the platform.
LEMMA SdlSteps ==
  ASSUME BuffersInv, [Next]_vars
  PROVE  \/ UNCHANGED <<renderer, D!vars>>
         \/ renderer = "none" /\ renderer' # "none" /\ UNCHANGED D!vars
         \/ renderer = "SDL" /\ renderer' = "SDL" /\ D!Next
         \/ renderer \notin {"none", "SDL"} /\ UNCHANGED <<renderer, queue, sdlCurrentFrame, sdlNextFrame, lpc>>
<1>1. CASE Start
  BY <1>1 DEF Start, streamVars, x11Vars, sdlVars, D!vars, D!frameVars, D!inputVars, D!padVars, D!counters,
     D!loopVars
<1>2. CASE Connect
  <2>1. UNCHANGED <<decoded, shown, x11Vars, sdlVars>> /\ renderer' \in {RendererOf[s] : s \in DOMAIN RendererOf}
    BY <1>2 DEF Connect
  <2>2. UNCHANGED D!vars
    BY <2>1 DEF x11Vars, sdlVars, D!vars, D!frameVars, D!inputVars, D!padVars, D!counters, D!loopVars
  <2>3. renderer = "none" /\ renderer' # "none"
    BY <1>2, <2>1 DEF BuffersInv, Connect, AboutToStream, RendererOf
  <2> QED BY <2>2, <2>3
<1>3. CASE StreamStep
  <2>1. renderer # "none" /\ UNCHANGED renderer
    BY <1>3, OneRenderer
  <2>2. CASE EndSubmit
    BY <2>1, <2>2 DEF EndSubmit, x11Vars, sdlVars, D!vars, D!frameVars, D!inputVars, D!padVars, D!counters, D!loopVars
  <2>3. CASE SDL /\ (D!Submit \/ D!SubmitNothing \/ D!SetUp \/ D!Loop \/ D!ConnectionTerminated \/ D!Input \/ D!PadsMove)
    BY <2>1, <2>3 DEF SDL, D!Next
  <2>4. CASE renderer # "SDL" /\ UNCHANGED sdlVars
    BY <2>1, <2>4 DEF sdlVars
  <2> QED BY <1>3, <2>2, <2>3, <2>4 DEF StreamStep, Packet, Submit, Failure, Handle, Devices, Others, LeaveLoop,
          CleanUp, X11CleanUp, ImxCleanUp, BoardCleanUp, X11, SDL, IMX, MMAL, PI, AML
<1>4. CASE UNCHANGED vars
  BY <1>4 DEF vars, startVars, streamVars, x11Vars, sdlVars, D!vars, D!frameVars, D!inputVars, D!padVars,
     D!counters, D!loopVars
<1> QED BY <1>1, <1>2, <1>3, <1>4 DEF Next, StreamStep

LEMMA SdlStreamInitially == Init => SdlStreamInv
BY DEF Init, SdlStreamInv

LEMMA SdlStreamKept == BuffersInv /\ SdlStreamInv /\ [Next]_vars => SdlStreamInv'
<1> SUFFICES ASSUME BuffersInv, SdlStreamInv, [Next]_vars PROVE SdlStreamInv'
  OBVIOUS
<1>1. CASE UNCHANGED <<renderer, D!vars>>
  <2>1. UNCHANGED <<queue, sdlCurrentFrame, sdlNextFrame, lpc>>
    BY <1>1 DEF D!vars, D!inputVars, D!counters, D!loopVars
  <2> QED BY <1>1, <2>1, SdlCarried DEF SdlStreamInv
<1>2. CASE renderer = "none" /\ renderer' # "none" /\ UNCHANGED D!vars
  <2>1. D!Init /\ D!Init'
    BY <1>2, SdlCarried DEF SdlStreamInv
  <2>2. SdlInv'
    BY <1>2, <2>1, SdlInitially, SdlCarried
  <2>3. queue' = <<>> /\ sdlCurrentFrame' = 0 /\ sdlNextFrame' = 0 /\ lpc' = "setup"
    BY <2>1 DEF D!Init, D!InputInit
  <2> QED BY <1>2, <2>2, <2>3 DEF SdlStreamInv
<1>3. CASE renderer = "SDL" /\ renderer' = "SDL" /\ D!Next
  BY <1>3, SdlStep DEF SdlStreamInv
<1>4. CASE renderer \notin {"none", "SDL"} /\ UNCHANGED <<renderer, queue, sdlCurrentFrame, sdlNextFrame, lpc>>
  BY <1>4 DEF SdlStreamInv
<1> QED BY <1>1, <1>2, <1>3, <1>4, SdlSteps

\* For any number of gamepads, entries of the table and buttons, and a queue of any size:
\* once the program has read what SDL had to say, the host has exactly the gamepads of the
\* table, each is plugged in and has the buttons that are held, every gamepad that SDL could
\* open has an entry unless there were more than entries, and a controller is open once if
\* its gamepad has an entry and closed if not.
THEOREM GamepadsSeen == Spec => []HostSeesPads
<1>1. SdlStreamInv => HostSeesPads
  BY SdlSees DEF SdlStreamInv, HostSeesPads
<1> QED BY <1>1, BuffersInitially, BuffersKept, SdlStreamInitially, SdlStreamKept, PTL DEF Spec

\* For a ring of any size and a queue of any size, whatever comes between: a frame of SDL
\* is skipped only when its buffer holds another by then, and otherwise its buffer holds
\* it at that check, unless a packet without a frame has emptied the buffer.  What is
\* shown is that frame as long as the receiving thread has not turned the ring between
\* the check and the upload; when it has, it is a later frame, never an earlier one.
THEOREM EventShowsItsFrameOrLater == Spec => SkipsOnlyOverwritten
<1> DEFINE Step == ~lost' =>
             /\ D!NumbersAgree'
             /\ sdlCurrentFrame' = sdlCurrentFrame + 1 =>
                  LET there == dec_frames[Head(queue).entry] IN
                  IF lpc' = "upload" THEN there \in {sdlCurrentFrame', D!NoFrame}
                                     ELSE there # sdlCurrentFrame'
             /\ lpc = "upload" /\ lpc' # "upload" /\ dec_frames[entry] # D!NoFrame =>
                  IF decoded < sdlCurrentFrame + FrameCount THEN shown' = sdlCurrentFrame
                                                            ELSE shown' > sdlCurrentFrame
<1>1. BuffersInv /\ SdlStreamInv /\ [Next]_vars => [Step]_(D!vars)
  <2> SUFFICES ASSUME BuffersInv, SdlStreamInv, [Next]_vars, ~(UNCHANGED D!vars) PROVE Step
    OBVIOUS
  <2>1. CASE renderer = "SDL" /\ renderer' = "SDL" /\ D!Next
    BY <2>1, SdlSkips DEF SdlStreamInv
  <2>2. CASE renderer \notin {"none", "SDL"} /\ UNCHANGED <<renderer, queue, sdlCurrentFrame, sdlNextFrame, lpc>>
    <3>1. /\ queue' = <<>> /\ sdlCurrentFrame' = 0 /\ sdlNextFrame' = 0 /\ sdlCurrentFrame = 0
          /\ lpc = "setup"
      BY <2>2 DEF SdlStreamInv
    <3>2. {k \in DOMAIN queue' : queue'[k].type = "frame"} = {}
      BY <3>1
    <3>3. D!FramesQueued' = 0
      BY <3>2, SdlCardinality, FS_EmptySet DEF D!FramesQueued
    <3> QED BY <3>1, <3>3 DEF D!NumbersAgree
  <2> QED BY <2>1, <2>2, SdlSteps
<1>2. Init /\ [][Next]_vars => [][Step]_(D!vars)
  BY <1>1, BuffersInitially, BuffersKept, SdlStreamInitially, SdlStreamKept, PTL
<1> QED BY <1>2 DEF Spec, SkipsOnlyOverwritten, D!SkipsOnlyOverwritten
=============================================================================
