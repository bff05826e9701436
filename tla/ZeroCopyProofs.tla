---------------------------- MODULE ZeroCopyProofs ----------------------------
(***************************************************************************)
(* Theorems about the zero-copy path, for pools, caches and streams of any *)
(* size and for every machine: whatever fails on the way, the picture is   *)
(* made of the frame's own memory, at its size and in its colours, and no  *)
(* image is lost.                                                          *)
(***************************************************************************)
EXTENDS ZeroCopy, Integers, FiniteSetTheorems, SequenceTheorems, TLAPS

-----------------------------------------------------------------------------
(* The images of a cache.                                                  *)

ImagesOf(cache) == {image \in (DOMAIN cache) \X {1, 2} : image[2] <= cache[image[1]].images}

LEMMA ImagesFinite ==
  ASSUME NEW cache \in Seq(Entries)
  PROVE  IsFiniteSet(ImagesOf(cache)) /\ Images(cache) \in Nat
<1>1. IsFiniteSet(DOMAIN cache)
  <2>1. DOMAIN cache = 1 .. Len(cache) /\ Len(cache) \in Nat
    OBVIOUS
  <2> QED BY <2>1, FS_Interval
<1>2. IsFiniteSet({1, 2})
  <2>1. {1, 2} = 1 .. 2
    OBVIOUS
  <2>2. IsFiniteSet(1 .. 2)
    BY 1 \in Int, 2 \in Int, FS_Interval
  <2> QED BY <2>1, <2>2
<1>3. IsFiniteSet((DOMAIN cache) \X {1, 2})
  BY <1>1, <1>2, FS_Product
<1>4. ImagesOf(cache) \in SUBSET ((DOMAIN cache) \X {1, 2})
  BY DEF ImagesOf
<1>5. IsFiniteSet(ImagesOf(cache))
  BY <1>3, <1>4, FS_Subset
<1> QED BY <1>5, FS_CardinalityType DEF Images, ImagesOf

\* An empty cache keeps no image alive.
LEMMA NoImages == Images(<<>>) = 0
<1>1. ImagesOf(<<>>) = {}
  BY DEF ImagesOf
<1> QED BY <1>1, FS_EmptySet DEF Images, ImagesOf

\* A new entry adds its images to those of the cache.
LEMMA OneMoreEntry ==
  ASSUME NEW cache \in Seq(Entries), NEW e \in Entries
  PROVE  Images(Append(cache, e)) = Images(cache) + e.images
<1> DEFINE n == Len(cache) + 1
           new == Append(cache, e)
<1>1. /\ n \in Nat /\ DOMAIN cache = 1 .. n - 1 /\ DOMAIN new = 1 .. n
      /\ new[n] = e /\ \A i \in 1 .. n - 1 : new[i] = cache[i]
  OBVIOUS
<1>2. e.images \in 0 .. 2
  BY DEF Entries
<1>3. /\ <<n, 1>> \notin ImagesOf(cache)
      /\ <<n, 2>> \notin ImagesOf(cache) \cup {<<n, 1>>}
  <2>1. n \notin DOMAIN cache
    BY <1>1
  <2> QED BY <2>1 DEF ImagesOf
<1>4. /\ IsFiniteSet(ImagesOf(cache)) /\ Images(cache) \in Nat
      /\ Images(cache) = Cardinality(ImagesOf(cache))
      /\ Images(new) = Cardinality(ImagesOf(new))
  BY ImagesFinite DEF Images, ImagesOf
<1>5. ASSUME NEW x \in (1 .. n) \X {1, 2}
      PROVE  x \in ImagesOf(new)
               <=> x \in ImagesOf(cache) \/ (x[1] = n /\ x[2] <= e.images)
  <2>1. CASE x[1] = n
    BY <2>1, <1>1, <1>5 DEF ImagesOf
  <2>2. CASE x[1] # n
    <3>1. x[1] \in 1 .. n - 1
      BY <2>2, <1>1
    <3>2. new[x[1]] = cache[x[1]] /\ x[1] \in DOMAIN cache /\ x[1] \in DOMAIN new
      BY <3>1, <1>1
    <3> QED BY <2>2, <3>2 DEF ImagesOf
  <2> QED BY <2>1, <2>2
<1>6. /\ ImagesOf(new) \subseteq (1 .. n) \X {1, 2}
      /\ ImagesOf(cache) \subseteq (1 .. n) \X {1, 2}
      /\ \A k \in {1, 2} : <<n, k>> \in (1 .. n) \X {1, 2}
      /\ \A x \in (1 .. n) \X {1, 2} :
           /\ x[2] = 1 \/ x[2] = 2
           /\ \A k \in {1, 2} : x = <<n, k>> <=> x[1] = n /\ x[2] = k
  BY <1>1 DEF ImagesOf
<1> HIDE DEF new, n
<1>7. ASSUME e.images = 0
      PROVE  Images(new) = Images(cache) + e.images
  <2>1. \A x \in (1 .. n) \X {1, 2} : ~(x[2] <= e.images)
    BY <1>6, <1>7
  <2>2. ImagesOf(new) = ImagesOf(cache)
    BY <2>1, <1>5, <1>6
  <2> QED BY <2>2, <1>4, <1>7
<1>8. ASSUME e.images = 1
      PROVE  Images(new) = Images(cache) + e.images
  <2>1. ImagesOf(new) = ImagesOf(cache) \cup {<<n, 1>>}
    BY <1>5, <1>6, <1>8
  <2>2. Cardinality(ImagesOf(cache) \cup {<<n, 1>>}) = Cardinality(ImagesOf(cache)) + 1
    BY <1>3, <1>4, FS_AddElement
  <2> QED BY <2>1, <2>2, <1>4, <1>8
<1>9. ASSUME e.images = 2
      PROVE  Images(new) = Images(cache) + e.images
  <2> DEFINE one == ImagesOf(cache) \cup {<<n, 1>>}
  <2>1. ImagesOf(new) = one \cup {<<n, 2>>}
    BY <1>5, <1>6, <1>9
  <2>2. IsFiniteSet(one) /\ Cardinality(one) = Cardinality(ImagesOf(cache)) + 1
    BY <1>3, <1>4, FS_AddElement
  <2>3. <<n, 2>> \notin one
    BY <1>3
  <2> HIDE DEF one
  <2>4. Cardinality(one \cup {<<n, 2>>}) = Cardinality(one) + 1
    BY <2>2, <2>3, FS_AddElement
  <2> QED BY <2>1, <2>2, <2>4, <1>4, <1>9
<1> QED BY <1>2, <1>7, <1>8, <1>9 DEF new

-----------------------------------------------------------------------------
(* What the caches hold.                                                   *)

Export == [surface : Nat \ {0}, buffer : Buffers]
Gpu == [nv12 : Seq(Entries), external : Seq(Entries), tiled : Seq(Entries),
        size : Sizes \cup {None}, live : Nat]

\* An entry describes the memory its descriptor was exported from, at the size that
\* the caches are for.
GoodEntry(e, size, exps) ==
  /\ e \in Entries
  /\ e.key.size = size
  /\ e.key.fd \in DOMAIN exps /\ e.buffer = exps[e.key.fd].buffer

GoodCache(cache, size, exps) ==
  /\ cache \in Seq(Entries) /\ Len(cache) <= MaxImages
  /\ \A i \in DOMAIN cache : GoodEntry(cache[i], size, exps)

\* The pair and the tiled image are converted by the shader.
Unconverted(cache) == \A i \in DOMAIN cache : cache[i].key.conv = NoConversion

\* A machine has linear or tiled buffers, so the caches that a reset leaves alone
\* are empty.
GpuOK(g, exps) ==
  /\ g \in Gpu
  /\ GoodCache(g.nv12, g.size, exps) /\ GoodCache(g.external, g.size, exps)
  /\ GoodCache(g.tiled, g.size, exps)
  /\ Unconverted(g.nv12) /\ Unconverted(g.tiled)
  /\ machine.linear => g.tiled = <<>>
  /\ ~machine.linear => g.nv12 = <<>> /\ g.external = <<>>
  /\ g.live = Images(g.nv12) + Images(g.external) + Images(g.tiled)

LEMMA EmptyCache ==
  ASSUME NEW size, NEW exps
  PROVE  GoodCache(<<>>, size, exps) /\ Unconverted(<<>>)
<1>1. <<>> \in Seq(Entries) /\ Len(<<>>) = 0 /\ DOMAIN <<>> = {}
  OBVIOUS
<1> QED BY <1>1, ZeroCopyAssumption DEF GoodCache, Unconverted

LEMMA LongerCache ==
  ASSUME NEW cache, NEW size, NEW exps, NEW e,
         GoodCache(cache, size, exps), GoodEntry(e, size, exps), Len(cache) < MaxImages
  PROVE  /\ GoodCache(Append(cache, e), size, exps)
         /\ Images(Append(cache, e)) = Images(cache) + e.images
         /\ Unconverted(cache) /\ e.key.conv = NoConversion => Unconverted(Append(cache, e))
<1>1. cache \in Seq(Entries) /\ e \in Entries
  BY DEF GoodCache, GoodEntry
<1>2. /\ Append(cache, e) \in Seq(Entries)
      /\ Len(Append(cache, e)) = Len(cache) + 1 /\ Len(cache) \in Nat
      /\ \A i \in DOMAIN Append(cache, e) :
           (i \in DOMAIN cache /\ Append(cache, e)[i] = cache[i]) \/ Append(cache, e)[i] = e
  BY <1>1
<1>3. Len(cache) + 1 <= MaxImages
  BY <1>2, ZeroCopyAssumption
<1> QED BY <1>1, <1>2, <1>3, OneMoreEntry DEF GoodCache, Unconverted

\* New descriptors leave those in the caches alone.
LEMMA MoreExports ==
  ASSUME NEW g, NEW exps, NEW more, GpuOK(g, exps),
         \A i \in DOMAIN exps : i \in DOMAIN more /\ more[i] = exps[i]
  PROVE  GpuOK(g, more)
BY DEF GpuOK, GoodCache, GoodEntry

-----------------------------------------------------------------------------
(* The drawing functions.                                                  *)

\* What a drawing function may return for a descriptor: the caches are in order, and
\* an image that exists is one of the buffer asked for, at that size and in those
\* colours.
Offers(r, exps, fd, size, conv) ==
  /\ GpuOK(r.g, exps)
  /\ r.image.images \in Nat
  /\ r.image.images > 0 =>
       /\ r.image.buffer = exps[fd].buffer /\ r.image.key.size = size
       /\ ImageConv(r.image, conv) = conv

\* A drawing function is given a descriptor and the caches reset for the size.
Given(g, exps, fd, size, conv) ==
  /\ exps \in Seq(Export) /\ Len(exps) <= MaxExports /\ fd \in DOMAIN exps
  /\ size \in Sizes /\ conv \in Conversion
  /\ GpuOK(g, exps) /\ g.size = size

LEMMA NothingOffered ==
  ASSUME NEW g, NEW exps, NEW fd, NEW size, NEW conv, GpuOK(g, exps)
  PROVE  Offers([g |-> g, image |-> NoImage], exps, fd, size, conv)
BY DEF Offers, NoImage, Entry

LEMMA ResetCaches ==
  ASSUME NEW exps, GpuOK(gpu, exps), NEW size \in Sizes
  PROVE  GpuOK(ResetIfResized(gpu, size), exps) /\ ResetIfResized(gpu, size).size = size
<1> DEFINE g == ResetIfResized(gpu, size)
<1>1. CASE gpu.size = size
  BY <1>1 DEF ResetIfResized
<1>2. ASSUME gpu.size # size, machine.linear
      PROVE  GpuOK(g, exps) /\ g.size = size
  <2>1. /\ g = [gpu EXCEPT !.size = size, !.nv12 = <<>>, !.external = <<>>,
                           !.live = gpu.live - Images(gpu.nv12) - Images(gpu.external)]
        /\ gpu \in Gpu
    BY <1>2 DEF ResetIfResized, GpuOK
  <2>2. /\ g.size = size /\ g.nv12 = <<>> /\ g.external = <<>> /\ g.tiled = gpu.tiled
        /\ g.live = gpu.live - Images(gpu.nv12) - Images(gpu.external)
    BY <2>1 DEF Gpu
  <2>3. gpu.tiled = <<>> /\ Images(gpu.tiled) = 0
    BY <1>2, NoImages DEF GpuOK
  <2>4. g.live = 0
    BY <2>1, <2>2, <2>3, ImagesFinite DEF GpuOK, Gpu
  <2>5. g = [nv12 |-> <<>>, external |-> <<>>, tiled |-> gpu.tiled, size |-> size, live |-> 0]
    BY <2>1, <2>2, <2>4 DEF Gpu
  <2>6. [nv12 |-> <<>>, external |-> <<>>, tiled |-> gpu.tiled, size |-> size, live |-> 0] \in Gpu
    BY <2>1 DEF Gpu
  <2> HIDE DEF g
  <2>7. g \in Gpu
    BY <2>5, <2>6
  <2> QED BY <1>2, <2>7, <2>2, <2>3, <2>4, <2>6, NoImages, EmptyCache DEF GpuOK
<1>3. ASSUME gpu.size # size, ~machine.linear
      PROVE  GpuOK(g, exps) /\ g.size = size
  <2>1. /\ g = [gpu EXCEPT !.size = size, !.tiled = <<>>, !.live = gpu.live - Images(gpu.tiled)]
        /\ gpu \in Gpu
    BY <1>3 DEF ResetIfResized, GpuOK
  <2>2. /\ g.size = size /\ g.nv12 = gpu.nv12 /\ g.external = gpu.external /\ g.tiled = <<>>
        /\ g.live = gpu.live - Images(gpu.tiled)
    BY <2>1 DEF Gpu
  <2>3. gpu.nv12 = <<>> /\ gpu.external = <<>>
    BY <1>3 DEF GpuOK
  <2>4. g.live = 0
    BY <2>1, <2>2, <2>3, ImagesFinite, NoImages DEF GpuOK, Gpu
  <2>5. g = [nv12 |-> gpu.nv12, external |-> gpu.external, tiled |-> <<>>, size |-> size,
             live |-> 0]
    BY <2>1, <2>2, <2>4 DEF Gpu
  <2>6. [nv12 |-> gpu.nv12, external |-> gpu.external, tiled |-> <<>>, size |-> size,
         live |-> 0] \in Gpu
    BY <2>1 DEF Gpu
  <2> HIDE DEF g
  <2>7. g \in Gpu
    BY <2>5, <2>6
  <2> QED BY <1>3, <2>7, <2>2, <2>3, <2>4, <2>6, NoImages, EmptyCache DEF GpuOK
<1> QED BY <1>1, <1>2, <1>3

\* The caches with one entry more.
WithPair(g, e) == [nv12 |-> Append(g.nv12, e), external |-> g.external, tiled |-> g.tiled,
                    size |-> g.size, live |-> g.live + e.images]
WithExternal(g, e) == [nv12 |-> g.nv12, external |-> Append(g.external, e), tiled |-> g.tiled,
                        size |-> g.size, live |-> g.live + e.images]
WithTiled(g, e) == [nv12 |-> g.nv12, external |-> g.external, tiled |-> Append(g.tiled, e),
                     size |-> g.size, live |-> g.live + e.images]

\* A cache that gets an entry, for memory of a descriptor, stays in order.
LEMMA PairAdded ==
  ASSUME NEW g, NEW exps, NEW e,
         GpuOK(g, exps), GoodEntry(e, g.size, exps),
         Len(g.nv12) < MaxImages, machine.linear,
         e.key.conv = NoConversion
  PROVE  GpuOK(WithPair(g, e), exps) /\ WithPair(g, e).size = g.size
<1> DEFINE g2 == WithPair(g, e)
<1>1. /\ g \in Gpu /\ e \in Entries /\ GoodCache(g.nv12, g.size, exps)
      /\ g.nv12 \in Seq(Entries) /\ g.external \in Seq(Entries) /\ g.tiled \in Seq(Entries)
  BY DEF GpuOK, GoodEntry, Gpu
<1>2. /\ e.images \in Nat
      /\ Images(g.nv12) \in Nat /\ Images(g.external) \in Nat /\ Images(g.tiled) \in Nat
  <2>1. e.images \in Nat
    BY <1>1 DEF Entries
  <2> QED BY <1>1, <2>1, ImagesFinite
<1>3. /\ g2.size = g.size /\ g2.nv12 = Append(g.nv12, e) /\ g2.external = g.external
      /\ g2.tiled = g.tiled /\ g2.live = g.live + e.images
  BY DEF WithPair
<1>4. /\ GoodCache(g2.nv12, g2.size, exps) /\ Images(g2.nv12) = Images(g.nv12) + e.images
      /\ Unconverted(g.nv12) /\ e.key.conv = NoConversion => Unconverted(g2.nv12)
  <2>1. Len(g.nv12) < MaxImages /\ GoodEntry(e, g.size, exps)
    OBVIOUS
  <2>2. /\ GoodCache(Append(g.nv12, e), g.size, exps)
        /\ Images(Append(g.nv12, e)) = Images(g.nv12) + e.images
        /\ Unconverted(g.nv12) /\ e.key.conv = NoConversion => Unconverted(Append(g.nv12, e))
    BY ONLY <1>1, <2>1, LongerCache
  <2> QED BY <1>3, <2>2
<1>5. g2.nv12 \in Seq(Entries) /\ g2.live \in Nat
  BY <1>1, <1>2, <1>3, <1>4 DEF GoodCache, Gpu
<1>6. g2 \in Gpu
  BY <1>1, <1>3, <1>5 DEF Gpu, WithPair
<1>7. g2.live = Images(g2.nv12) + Images(g2.external) + Images(g2.tiled)
  BY <1>2, <1>3, <1>4 DEF GpuOK
<1> HIDE DEF g2
<1>8. GpuOK(g2, exps)
  BY <1>3, <1>4, <1>6, <1>7 DEF GpuOK
<1> QED BY <1>3, <1>8 DEF g2

LEMMA ExternalAdded ==
  ASSUME NEW g, NEW exps, NEW e,
         GpuOK(g, exps), GoodEntry(e, g.size, exps),
         Len(g.external) < MaxImages, machine.linear
  PROVE  GpuOK(WithExternal(g, e), exps) /\ WithExternal(g, e).size = g.size
<1> DEFINE g2 == WithExternal(g, e)
<1>1. /\ g \in Gpu /\ e \in Entries /\ GoodCache(g.external, g.size, exps)
      /\ g.nv12 \in Seq(Entries) /\ g.external \in Seq(Entries) /\ g.tiled \in Seq(Entries)
  BY DEF GpuOK, GoodEntry, Gpu
<1>2. /\ e.images \in Nat
      /\ Images(g.nv12) \in Nat /\ Images(g.external) \in Nat /\ Images(g.tiled) \in Nat
  <2>1. e.images \in Nat
    BY <1>1 DEF Entries
  <2> QED BY <1>1, <2>1, ImagesFinite
<1>3. /\ g2.size = g.size /\ g2.external = Append(g.external, e) /\ g2.nv12 = g.nv12
      /\ g2.tiled = g.tiled /\ g2.live = g.live + e.images
  BY DEF WithExternal
<1>4. /\ GoodCache(g2.external, g2.size, exps) /\ Images(g2.external) = Images(g.external) + e.images
      /\ Unconverted(g.external) /\ e.key.conv = NoConversion => Unconverted(g2.external)
  <2>1. Len(g.external) < MaxImages /\ GoodEntry(e, g.size, exps)
    OBVIOUS
  <2>2. /\ GoodCache(Append(g.external, e), g.size, exps)
        /\ Images(Append(g.external, e)) = Images(g.external) + e.images
        /\ Unconverted(g.external) /\ e.key.conv = NoConversion => Unconverted(Append(g.external, e))
    BY ONLY <1>1, <2>1, LongerCache
  <2> QED BY <1>3, <2>2
<1>5. g2.external \in Seq(Entries) /\ g2.live \in Nat
  BY <1>1, <1>2, <1>3, <1>4 DEF GoodCache, Gpu
<1>6. g2 \in Gpu
  BY <1>1, <1>3, <1>5 DEF Gpu, WithExternal
<1>7. g2.live = Images(g2.nv12) + Images(g2.external) + Images(g2.tiled)
  BY <1>2, <1>3, <1>4 DEF GpuOK
<1> HIDE DEF g2
<1>8. GpuOK(g2, exps)
  BY <1>3, <1>4, <1>6, <1>7 DEF GpuOK
<1> QED BY <1>3, <1>8 DEF g2

LEMMA TiledAdded ==
  ASSUME NEW g, NEW exps, NEW e,
         GpuOK(g, exps), GoodEntry(e, g.size, exps),
         Len(g.tiled) < MaxImages, ~machine.linear,
         e.key.conv = NoConversion
  PROVE  GpuOK(WithTiled(g, e), exps) /\ WithTiled(g, e).size = g.size
<1> DEFINE g2 == WithTiled(g, e)
<1>1. /\ g \in Gpu /\ e \in Entries /\ GoodCache(g.tiled, g.size, exps)
      /\ g.nv12 \in Seq(Entries) /\ g.external \in Seq(Entries) /\ g.tiled \in Seq(Entries)
  BY DEF GpuOK, GoodEntry, Gpu
<1>2. /\ e.images \in Nat
      /\ Images(g.nv12) \in Nat /\ Images(g.external) \in Nat /\ Images(g.tiled) \in Nat
  <2>1. e.images \in Nat
    BY <1>1 DEF Entries
  <2> QED BY <1>1, <2>1, ImagesFinite
<1>3. /\ g2.size = g.size /\ g2.tiled = Append(g.tiled, e) /\ g2.nv12 = g.nv12
      /\ g2.external = g.external /\ g2.live = g.live + e.images
  BY DEF WithTiled
<1>4. /\ GoodCache(g2.tiled, g2.size, exps) /\ Images(g2.tiled) = Images(g.tiled) + e.images
      /\ Unconverted(g.tiled) /\ e.key.conv = NoConversion => Unconverted(g2.tiled)
  <2>1. Len(g.tiled) < MaxImages /\ GoodEntry(e, g.size, exps)
    OBVIOUS
  <2>2. /\ GoodCache(Append(g.tiled, e), g.size, exps)
        /\ Images(Append(g.tiled, e)) = Images(g.tiled) + e.images
        /\ Unconverted(g.tiled) /\ e.key.conv = NoConversion => Unconverted(Append(g.tiled, e))
    BY ONLY <1>1, <2>1, LongerCache
  <2> QED BY <1>3, <2>2
<1>5. g2.tiled \in Seq(Entries) /\ g2.live \in Nat
  BY <1>1, <1>2, <1>3, <1>4 DEF GoodCache, Gpu
<1>6. g2 \in Gpu
  BY <1>1, <1>3, <1>5 DEF Gpu, WithTiled
<1>7. g2.live = Images(g2.nv12) + Images(g2.external) + Images(g2.tiled)
  BY <1>2, <1>3, <1>4 DEF GpuOK
<1> HIDE DEF g2
<1>8. GpuOK(g2, exps)
  BY <1>3, <1>4, <1>6, <1>7 DEF GpuOK
<1> QED BY <1>3, <1>8 DEF g2

\* The entry that is made for a descriptor describes its memory.
LEMMA NewEntry ==
  ASSUME NEW g, NEW exps, NEW fd, NEW size, NEW conv, Given(g, exps, fd, size, conv),
         NEW c \in Conversion \cup {NoConversion}, NEW k \in 0 .. 2
  PROVE  LET e == Entry(KeyOf(fd, size, c), exps[fd].buffer, k)
         IN  /\ GoodEntry(e, g.size, exps)
             /\ e.images = k /\ e.key = KeyOf(fd, size, c) /\ e.buffer = exps[fd].buffer
             /\ e.key.conv = c
<1>1. /\ DOMAIN exps = 1 .. Len(exps) /\ Len(exps) \in Nat /\ exps[fd] \in Export
  BY DEF Given
<1>2. fd \in 1 .. MaxExports /\ exps[fd].buffer \in Buffers
  BY <1>1, ZeroCopyAssumption DEF Given, Export
<1>3. KeyOf(fd, size, c) \in Keys
  BY <1>2 DEF KeyOf, Keys, Given
<1>4. Entry(KeyOf(fd, size, c), exps[fd].buffer, k) \in Entries
  BY <1>2, <1>3 DEF Entry, Entries
<1> QED BY <1>1, <1>4 DEF GoodEntry, Entry, KeyOf, Given

\* An image is converted as its key says.
LEMMA ConvertedAsKey ==
  ASSUME NEW image, NEW conv \in Conversion
  PROVE  image.key.conv \in {conv, NoConversion} => ImageConv(image, conv) = conv
BY DEF ImageConv

LEMMA GetExternalOffers ==
  ASSUME NEW g, NEW exps, NEW fd, NEW size, NEW conv, Given(g, exps, fd, size, conv),
         machine.linear,
         NEW r \in GetExternal(g, KeyOf(fd, size, conv), exps[fd].buffer)
  PROVE  Offers(r, exps, fd, size, conv) /\ r.g.size = size
<1> DEFINE key == KeyOf(fd, size, conv)
           made(k) == Entry(key, exps[fd].buffer, k)
<1>1. \A k \in 0 .. 2 : /\ GoodEntry(made(k), g.size, exps) /\ made(k).images = k
                        /\ made(k).key = key /\ made(k).buffer = exps[fd].buffer
                        /\ made(k).key.conv = conv
  BY NewEntry DEF Given
<1>2. conv \in Conversion /\ GpuOK(g, exps) /\ g.size = size /\ key.conv = conv /\ key.fd = fd
  BY DEF Given, KeyOf
<1>3. CASE Hits(g.external, key) # {}
  <2>1. PICK i \in Hits(g.external, key) : r = [g |-> g, image |-> g.external[i]]
    BY <1>3 DEF GetExternal
  <2>2. /\ i \in DOMAIN g.external /\ g.external[i].key = key
        /\ GoodEntry(g.external[i], size, exps)
    BY <2>1, <1>2 DEF Hits, GpuOK, GoodCache
  <2>3. g.external[i].images \in Nat
    BY <2>2 DEF GoodEntry, Entries
  <2> QED BY <1>2, <2>1, <2>2, <2>3, ConvertedAsKey DEF Offers, GoodEntry
<1>4. CASE Hits(g.external, key) = {} /\ Len(g.external) >= MaxImages
  <2>1. r = [g |-> g, image |-> made(0)]
    BY <1>4 DEF GetExternal
  <2> QED BY <2>1, <1>1, <1>2 DEF Offers
<1>5. CASE Hits(g.external, key) = {} /\ ~(Len(g.external) >= MaxImages)
  <2>1. PICK k \in {0, 1} :
          r = [g |-> [g EXCEPT !.external = Append(g.external, made(k)), !.live = g.live + k],
               image |-> made(k)]
    BY <1>5 DEF GetExternal
  <2>2. Len(g.external) < MaxImages
    BY <1>2, <1>5, ZeroCopyAssumption DEF GpuOK, GoodCache
  <2>3. k \in 0 .. 2
    OBVIOUS
  <2> HIDE DEF made
  <2>4. GpuOK(r.g, exps) /\ r.g.size = g.size
    <3>1. GoodEntry(made(k), g.size, exps) /\ made(k).images = k
      BY <1>1, <2>3
    <3>2. GpuOK(g, exps) /\ machine.linear
      BY <1>2
    <3>3. r.g = WithExternal(g, made(k))
      BY <2>1, <3>1, <3>2 DEF WithExternal, GpuOK, Gpu
    <3> QED BY ONLY <2>2, <3>1, <3>2, <3>3, ExternalAdded
  <2>5. r.image = made(k) /\ k \in Nat
    BY <2>1
  <2> QED BY <1>1, <1>2, <2>3, <2>4, <2>5, ConvertedAsKey DEF Offers, KeyOf
<1> QED BY <1>3, <1>4, <1>5

\* A pair of which one image failed is kept without images, for the caller as in the
\* cache.
LEMMA GetNv12Offers ==
  ASSUME NEW g, NEW exps, NEW fd, NEW size, NEW conv, Given(g, exps, fd, size, conv),
         machine.linear,
         NEW r \in GetNv12(g, KeyOf(fd, size, NoConversion), exps[fd].buffer)
  PROVE  Offers(r, exps, fd, size, conv)
<1> DEFINE key == KeyOf(fd, size, NoConversion)
           made(k) == Entry(key, exps[fd].buffer, k)
<1>1. \A k \in 0 .. 2 : /\ GoodEntry(made(k), g.size, exps) /\ made(k).images = k
                        /\ made(k).key = key /\ made(k).buffer = exps[fd].buffer
                        /\ made(k).key.conv = NoConversion
  <2>1. NoConversion \in Conversion \cup {NoConversion}
    OBVIOUS
  <2> QED BY <2>1, NewEntry
<1>2. /\ conv \in Conversion /\ GpuOK(g, exps) /\ g.size = size
      /\ key.conv = NoConversion /\ key.fd = fd /\ key.size = size
  BY DEF Given, KeyOf
<1>3. CASE FdHits(g.nv12, key.fd) # {}
  <2>1. PICK i \in FdHits(g.nv12, key.fd) : r = [g |-> g, image |-> g.nv12[i]]
    BY <1>3 DEF GetNv12
  <2>2. /\ i \in DOMAIN g.nv12 /\ g.nv12[i].key.fd = fd
        /\ g.nv12[i].key.conv = NoConversion
        /\ GoodEntry(g.nv12[i], size, exps)
    BY <2>1, <1>2 DEF FdHits, GpuOK, GoodCache, Unconverted
  <2>3. g.nv12[i].images \in Nat
    BY <2>2 DEF GoodEntry, Entries
  <2> QED BY <1>2, <2>1, <2>2, <2>3, ConvertedAsKey DEF Offers, GoodEntry
<1>4. CASE FdHits(g.nv12, key.fd) = {} /\ Len(g.nv12) >= MaxImages
  <2>1. r = [g |-> g, image |-> made(0)]
    BY <1>4 DEF GetNv12
  <2> QED BY <2>1, <1>1, <1>2 DEF Offers
<1>5. CASE FdHits(g.nv12, key.fd) = {} /\ ~(Len(g.nv12) >= MaxImages)
  <2>a. PICK k \in 0 .. 2 :
          r = [g |-> KeepPair(g, key, exps[fd].buffer, k), image |-> made(IF k = 2 THEN 2 ELSE 0)]
    BY <1>5 DEF GetNv12
  <2> DEFINE kept == IF k = 2 THEN 2 ELSE 0
  <2>1. r = [g |-> [g EXCEPT !.nv12 = Append(g.nv12, made(kept)), !.live = g.live + kept],
             image |-> made(kept)]
    BY <2>a DEF KeepPair
  <2>2. Len(g.nv12) < MaxImages
    BY <1>2, <1>5, ZeroCopyAssumption DEF GpuOK, GoodCache
  <2>3. kept \in 0 .. 2
    OBVIOUS
  <2> HIDE DEF kept
  <2> HIDE DEF made
  <2>4. GpuOK(r.g, exps) /\ r.g.size = g.size
    <3>1. GoodEntry(made(kept), g.size, exps) /\ made(kept).images = kept /\ made(kept).key.conv = NoConversion
      BY <1>1, <2>3
    <3>2. GpuOK(g, exps) /\ machine.linear
      BY <1>2
    <3>3. r.g = WithPair(g, made(kept))
      BY <2>1, <3>1, <3>2 DEF WithPair, GpuOK, Gpu
    <3> QED BY ONLY <2>2, <3>1, <3>2, <3>3, PairAdded
  <2>5. r.image = made(kept) /\ kept \in Nat
    BY <2>1, <2>3
  <2> QED BY <1>1, <1>2, <2>3, <2>4, <2>5, ConvertedAsKey DEF Offers
<1> QED BY <1>3, <1>4, <1>5

LEMMA GetTiledOffers ==
  ASSUME NEW g, NEW exps, NEW fd, NEW size, NEW conv, Given(g, exps, fd, size, conv),
         ~machine.linear,
         NEW r \in GetTiled(g, KeyOf(fd, size, NoConversion), exps[fd].buffer)
  PROVE  Offers(r, exps, fd, size, conv)
<1> DEFINE key == KeyOf(fd, size, NoConversion)
           made(k) == Entry(key, exps[fd].buffer, k)
<1>1. \A k \in 0 .. 2 : /\ GoodEntry(made(k), g.size, exps) /\ made(k).images = k
                        /\ made(k).key = key /\ made(k).buffer = exps[fd].buffer
                        /\ made(k).key.conv = NoConversion
  <2>1. NoConversion \in Conversion \cup {NoConversion}
    OBVIOUS
  <2> QED BY <2>1, NewEntry
<1>2. /\ conv \in Conversion /\ GpuOK(g, exps) /\ g.size = size
      /\ key.conv = NoConversion /\ key.fd = fd /\ key.size = size
  BY DEF Given, KeyOf
<1>3. CASE FdHits(g.tiled, key.fd) # {}
  <2>1. PICK i \in FdHits(g.tiled, key.fd) : r = [g |-> g, image |-> g.tiled[i]]
    BY <1>3 DEF GetTiled
  <2>2. /\ i \in DOMAIN g.tiled /\ g.tiled[i].key.fd = fd
        /\ g.tiled[i].key.conv = NoConversion
        /\ GoodEntry(g.tiled[i], size, exps)
    BY <2>1, <1>2 DEF FdHits, GpuOK, GoodCache, Unconverted
  <2>3. g.tiled[i].images \in Nat
    BY <2>2 DEF GoodEntry, Entries
  <2> QED BY <1>2, <2>1, <2>2, <2>3, ConvertedAsKey DEF Offers, GoodEntry
<1>4. CASE FdHits(g.tiled, key.fd) = {} /\ r = [g |-> g, image |-> made(0)]
  BY <1>1, <1>2, <1>4 DEF Offers
<1>5. CASE FdHits(g.tiled, key.fd) = {} /\ r # [g |-> g, image |-> made(0)]
  <2>1. /\ Len(g.tiled) < MaxImages
        /\ r = [g |-> [g EXCEPT !.tiled = Append(g.tiled, made(1)), !.live = g.live + 1],
                image |-> made(1)]
    BY <1>5 DEF GetTiled
  <2>2. Len(g.tiled) < MaxImages
    BY <2>1
  <2>3. 1 \in 0 .. 2
    OBVIOUS
  <2> HIDE DEF made
  <2>4. GpuOK(r.g, exps) /\ r.g.size = g.size
    <3>1. GoodEntry(made(1), g.size, exps) /\ made(1).images = 1 /\ made(1).key.conv = NoConversion
      BY <1>1, <2>3
    <3>2. GpuOK(g, exps) /\ ~machine.linear
      BY <1>2
    <3>3. r.g = WithTiled(g, made(1))
      BY <2>1, <3>1, <3>2 DEF WithTiled, GpuOK, Gpu
    <3> QED BY ONLY <2>2, <3>1, <3>2, <3>3, TiledAdded
  <2>5. r.image = made(1) /\ 1 \in Nat
    BY <2>1, <2>3
  <2> QED BY <1>1, <1>2, <2>3, <2>4, <2>5, ConvertedAsKey DEF Offers
<1> QED BY <1>3, <1>4, <1>5

LEMMA DrawExternalOffers ==
  ASSUME NEW g, NEW exps, NEW fd, NEW size, NEW conv, Given(g, exps, fd, size, conv),
         machine.linear,
         NEW r \in DrawExternal(g, fd, exps[fd].buffer, conv)
  PROVE  Offers(r, exps, fd, size, conv) /\ r.g.size = size
<1>1. GpuOK(g, exps) /\ g.size = size
  BY DEF Given
<1>2. CASE r = [g |-> g, image |-> NoImage]
  BY <1>1, <1>2, NothingOffered
<1>3. CASE \E s \in GetExternal(g, KeyOf(fd, size, conv), exps[fd].buffer) :
             r = s \/ r = [g |-> s.g, image |-> NoImage]
  <2>1. PICK s \in GetExternal(g, KeyOf(fd, size, conv), exps[fd].buffer) :
               r = s \/ r = [g |-> s.g, image |-> NoImage]
    BY <1>3
  <2>2. Offers(s, exps, fd, size, conv) /\ s.g.size = size
    BY GetExternalOffers
  <2>3. GpuOK(s.g, exps)
    BY <2>2 DEF Offers
  <2> QED BY <2>1, <2>2, <2>3, NothingOffered
<1> QED BY <1>1, <1>2, <1>3 DEF DrawExternal

LEMMA DrawPairOffers ==
  ASSUME NEW g, NEW exps, NEW fd, NEW size, NEW conv, Given(g, exps, fd, size, conv),
         machine.linear,
         NEW r \in DrawPair(g, fd, exps[fd].buffer)
  PROVE  Offers(r, exps, fd, size, conv)
<1>1. GpuOK(g, exps) /\ g.size = size
  BY DEF Given
<1>2. CASE r = [g |-> g, image |-> NoImage]
  BY <1>1, <1>2, NothingOffered
<1>3. CASE r \in GetNv12(g, KeyOf(fd, size, NoConversion), exps[fd].buffer)
  BY <1>3, GetNv12Offers
<1> QED BY <1>1, <1>2, <1>3 DEF DrawPair

\* Whatever the machine can do, and whatever fails, drawing with a descriptor keeps
\* the caches in order, and what it draws is the descriptor's memory.
LEMMA DrawOffers ==
  ASSUME NEW exps \in Seq(Export), Len(exps) <= MaxExports, NEW fd \in DOMAIN exps,
         NEW size \in Sizes, NEW conv \in Conversion, GpuOK(gpu, exps),
         NEW r \in DrawDmabuf(fd, exps[fd].buffer, size, conv)
  PROVE  Offers(r, exps, fd, size, conv)
<1> DEFINE g == ResetIfResized(gpu, size)
<1>1. Given(g, exps, fd, size, conv)
  BY ResetCaches DEF Given
<1>2. CASE r = [g |-> gpu, image |-> NoImage]
  BY <1>2, NothingOffered
<1> HIDE DEF g
<1>3. CASE machine.linear /\ \E s \in DrawExternal(g, fd, exps[fd].buffer, conv) :
             r = s \/ r \in DrawPair(s.g, fd, exps[fd].buffer)
  <2>1. PICK s \in DrawExternal(g, fd, exps[fd].buffer, conv) :
               r = s \/ r \in DrawPair(s.g, fd, exps[fd].buffer)
    BY <1>3
  <2>2. Offers(s, exps, fd, size, conv) /\ s.g.size = size
    BY <1>1, <1>3, DrawExternalOffers
  <2>3. Given(s.g, exps, fd, size, conv)
    BY <1>1, <2>2 DEF Given, Offers
  <2> QED BY <1>3, <2>1, <2>2, <2>3, DrawPairOffers
<1>4. CASE machine.linear /\ r \in DrawPair(g, fd, exps[fd].buffer)
  BY <1>1, <1>4, DrawPairOffers
<1>5. CASE ~machine.linear
             /\ r \in GetTiled(g, KeyOf(fd, size, NoConversion), exps[fd].buffer)
  BY <1>1, <1>5, GetTiledOffers
<1>6. machine.linear => r \in DrawNv12(gpu, fd, exps[fd].buffer, size, conv)
  BY DEF DrawDmabuf
<1>7. ~machine.linear => \/ r \in DrawTiled(gpu, fd, exps[fd].buffer, size)
                         \/ r = [g |-> gpu, image |-> NoImage]
  BY DEF DrawDmabuf
<1> QED BY <1>2, <1>3, <1>4, <1>5, <1>6, <1>7 DEF DrawNv12, DrawTiled, g

-----------------------------------------------------------------------------
(* The invariant.                                                          *)

\* Without reuse, the id of a surface tells its pool and its place in it.
IdOf(buffer) == IF machine.reuseIds THEN buffer.n
                ELSE (buffer.pool - 1) * PoolSize + buffer.n

ExportsOK ==
  /\ exports \in Seq(Export) /\ Len(exports) <= MaxExports
  /\ \A i \in DOMAIN exports : exports[i].surface = IdOf(exports[i].buffer)

\* The conversion is the one of the metadata, where they name a matrix.
ColourOK ==
  \/ colour.space = "unset" /\ colour.conv = NoConversion
  \/ /\ colour.space \in Spaces /\ colour.range \in Ranges /\ colour.conv \in Conversion
     /\ colour.space # "unspecified" => colour.conv = <<colour.space = "bt709", colour.range>>

\* The textures and the frames of the download path are made once, before the first
\* picture; egl_destroy empties every cache.
PhaseOK ==
  /\ machine \in Machines
  /\ phase \in {"new", "egl", "failed", "streaming", "crashed", "destroyed"}
  /\ pool \in [no : 1 .. MaxPools, size : Sizes]
  /\ yuvSize \in Sizes \cup {None}
  /\ phase \in {"new", "egl", "failed"} => drawn = {}
  /\ phase = "destroyed" => gpu.live = 0

IInv == GpuOK(gpu, exports) /\ ExportsOK /\ ColourOK /\ PhaseOK

\* Two buffers with one id are one buffer.
LEMMA IdsDiffer ==
  ASSUME ~machine.reuseIds, NEW b \in Buffers, NEW c \in Buffers, IdOf(b) = IdOf(c)
  PROVE  b = c
<1>1. /\ b.pool \in Nat /\ b.n \in Nat /\ 1 <= b.n /\ b.n <= PoolSize /\ 1 <= b.pool
      /\ c.pool \in Nat /\ c.n \in Nat /\ 1 <= c.n /\ c.n <= PoolSize /\ 1 <= c.pool
      /\ PoolSize \in Nat /\ b = [pool |-> b.pool, n |-> b.n] /\ c = [pool |-> c.pool, n |-> c.n]
  BY ZeroCopyAssumption DEF Buffers, Surfaces
<1>2. (b.pool - 1) * PoolSize + b.n = (c.pool - 1) * PoolSize + c.n
  BY DEF IdOf
<1>3. ASSUME NEW p \in Nat, NEW q \in Nat, NEW k \in Nat, NEW m \in Nat, NEW K \in Nat,
             p < q, k <= K, 1 <= m, 1 <= p
      PROVE  (p - 1) * K + k < (q - 1) * K + m
  <2>1. (q - 1) * K = (p - 1) * K + (q - p) * K
    BY <1>3
  <2>2. (q - p) * K >= K
    BY <1>3
  <2> QED BY <1>3, <2>1, <2>2
<1>4. b.pool = c.pool
  BY <1>1, <1>2, <1>3
<1>5. b.n = c.n
  BY <1>1, <1>2, <1>4
<1> QED BY <1>1, <1>4, <1>5

-----------------------------------------------------------------------------
(* A frame.                                                                *)

\* The conversion in use is the one a frame that names its matrix calls for, although
\* it is derived only when the metadata change.
LEMMA ColourStep ==
  ASSUME ColourOK, PhaseOK, NEW space \in Spaces, NEW range \in Ranges,
         colour' = StreamColours(space, range)
  PROVE  /\ ColourOK' /\ colour'.conv \in Conversion
         /\ space # "unspecified" => colour'.conv = <<Use709(space, pool.size), range>>
<1>1. space # "unset" /\ Use709(space, pool.size) \in BOOLEAN
  BY ZeroCopyAssumption DEF Use709
<1>2. space # "unspecified" => (space = "bt709") = Use709(space, pool.size)
  BY DEF Use709
<1>3. CASE colour.space = space /\ colour.range = range
  <2>1. colour' = colour
    BY <1>3 DEF StreamColours
  <2>2. /\ colour.conv \in Conversion
        /\ space # "unspecified" => colour.conv = <<space = "bt709", range>>
    BY <1>1, <1>3 DEF ColourOK
  <2> QED BY <1>1, <1>2, <1>3, <2>1, <2>2 DEF ColourOK
<1>4. CASE ~(colour.space = space /\ colour.range = range)
  <2>1. colour' = [space |-> space, range |-> range, conv |-> <<Use709(space, pool.size), range>>]
    BY <1>4 DEF StreamColours
  <2>2. /\ colour'.space = space /\ colour'.range = range
        /\ colour'.conv = <<Use709(space, pool.size), range>>
    BY <2>1
  <2>3. colour'.conv \in Conversion
    BY <1>1, <2>2 DEF Conversion
  <2>4. space # "unspecified" => colour'.conv = <<space = "bt709", range>>
    BY <1>2, <2>2
  <2> QED BY <2>2, <2>3, <2>4 DEF ColourOK
<1> QED BY <1>3, <1>4

\* A descriptor that is returned was exported from the surface's own memory, unless
\* the ids are used again.
LEMMA ExportStep ==
  ASSUME ExportsOK, PhaseOK, NEW n \in Surfaces, NEW e \in ExportDmabuf(n)
  PROVE  /\ e.exports \in Seq(Export) /\ Len(e.exports) <= MaxExports
         /\ \A i \in DOMAIN e.exports : e.exports[i].surface = IdOf(e.exports[i].buffer)
         /\ \A i \in DOMAIN exports : i \in DOMAIN e.exports /\ e.exports[i] = exports[i]
         /\ e.fd # 0 => /\ e.fd \in DOMAIN e.exports
                        /\ ~machine.reuseIds => e.exports[e.fd].buffer = Buffer(n)
<1> DEFINE new == [surface |-> Surface(n), buffer |-> Buffer(n)]
<1>1. Buffer(n) \in Buffers /\ IdOf(Buffer(n)) = Surface(n)
  BY DEF Buffer, Buffers, IdOf, Surface, PhaseOK
<1>2. Surface(n) \in Nat \ {0}
  <2>1. /\ n \in Nat /\ 1 <= n /\ pool.no \in Nat /\ 1 <= pool.no /\ PoolSize \in Nat
    BY ZeroCopyAssumption DEF Surfaces, PhaseOK
  <2>2. (pool.no - 1) * PoolSize \in Nat
    BY <2>1
  <2> QED BY <2>1, <2>2 DEF Surface
<1>3. new \in Export /\ new.surface = IdOf(new.buffer) /\ new.buffer = Buffer(n)
  BY <1>1, <1>2 DEF Export
<1>4. exports \in Seq(Export) /\ Len(exports) \in Nat /\ DOMAIN exports = 1 .. Len(exports)
  BY DEF ExportsOK
<1>5. CASE e = [exports |-> exports, fd |-> 0]
  BY <1>5 DEF ExportsOK
<1>6. CASE \E i \in Exported(n) : e = [exports |-> exports, fd |-> i]
  <2>1. PICK i \in Exported(n) : e = [exports |-> exports, fd |-> i]
    BY <1>6
  <2>2. i \in DOMAIN exports /\ exports[i].surface = Surface(n) /\ exports[i].buffer \in Buffers
    <3>1. i \in DOMAIN exports /\ exports[i].surface = Surface(n)
      BY <2>1 DEF Exported
    <3>2. exports[i] \in Export
      BY <1>4, <3>1
    <3> QED BY <3>1, <3>2 DEF Export
  <2>3. IdOf(exports[i].buffer) = IdOf(Buffer(n))
    BY <1>1, <2>2 DEF ExportsOK
  <2>4. ~machine.reuseIds => exports[i].buffer = Buffer(n)
    BY <1>1, <2>2, <2>3, IdsDiffer
  <2> QED BY <2>1, <2>2, <2>4 DEF ExportsOK
<1>7. CASE /\ Len(exports) < MaxExports
           /\ e = [exports |-> Append(exports, new), fd |-> Len(exports) + 1]
  <2> HIDE DEF new
  <2> DEFINE more == Append(exports, new)
  <2>1. /\ more \in Seq(Export) /\ Len(more) = Len(exports) + 1
        /\ more[Len(exports) + 1] = new
        /\ DOMAIN more = 1 .. Len(exports) + 1
        /\ \A i \in DOMAIN exports : more[i] = exports[i]
    BY <1>3, <1>4
  <2> HIDE DEF more
  <2>2. e.exports = more /\ e.fd = Len(exports) + 1 /\ Len(more) <= MaxExports
    BY <1>4, <1>7, <2>1, ZeroCopyAssumption DEF more
  <2>3. \A i \in DOMAIN more : i = Len(exports) + 1 \/ i \in DOMAIN exports
    BY <1>4, <2>1
  <2>4. \A i \in DOMAIN more : more[i].surface = IdOf(more[i].buffer)
    BY <1>3, <2>1, <2>3 DEF ExportsOK
  <2>5. e.fd \in DOMAIN more /\ more[e.fd].buffer = Buffer(n)
    BY <1>3, <1>4, <2>1, <2>2
  <2> QED BY <1>4, <2>1, <2>2, <2>4, <2>5
<1>8. \/ \E i \in Exported(n) : e = [exports |-> exports, fd |-> i]
      \/ e = [exports |-> exports, fd |-> 0]
      \/ /\ Len(exports) < MaxExports
         /\ e = [exports |-> Append(exports, new), fd |-> Len(exports) + 1]
  <2>1. CASE Exported(n) # {}
    BY <2>1 DEF ExportDmabuf
  <2>2. CASE Exported(n) = {}
    BY <2>2 DEF ExportDmabuf, ExportNew
  <2> QED BY <2>1, <2>2
<1> QED BY <1>5, <1>6, <1>7, <1>8

\* A picture that is right: from the frame's memory, at the frame's size or at the one
\* of the download path, and in the frame's colours.
Right(p) ==
  /\ ~machine.reuseIds => p.from = p.of
  /\ p.size = (IF p.imported THEN p.wanted ELSE yuvSize)
  /\ p.declared => p.conv = p.wants

LEMMA FallbackRight ==
  ASSUME NEW n \in Surfaces, NEW space, NEW range, Fallback(n, space, range),
         space # "unspecified" => colour'.conv = <<Use709(space, pool.size), range>>
  PROVE  /\ drawn' = drawn \/ \A p \in drawn' : Right(p)
         /\ phase' \in {phase, "crashed"}
<1> DEFINE q == Picture(n, space, range, Buffer(n), yuvSize, colour'.conv)
<1>1. /\ q.from = q.of /\ q.size = yuvSize /\ q.imported = FALSE /\ q.conv = colour'.conv
      /\ q.wants = <<Use709(space, pool.size), range>> /\ q.declared = (space # "unspecified")
  BY DEF Picture
<1>2. Right(q)
  <2> HIDE DEF q
  <2> QED BY <1>1 DEF Right
<1>3. drawn' \in {drawn, {q}} /\ phase' \in {phase, "crashed"}
  BY DEF Fallback
<1> HIDE DEF q
<1> QED BY <1>2, <1>3

LEMMA ZeroCopiedRight ==
  ASSUME NEW n \in Surfaces, NEW space, NEW range, NEW image,
         ZeroCopied(n, space, range, image),
         space # "unspecified" => colour'.conv = <<Use709(space, pool.size), range>>,
         ~machine.reuseIds => image.buffer = Buffer(n),
         image.key.size = pool.size, ImageConv(image, colour'.conv) = colour'.conv
  PROVE  \A p \in drawn' : Right(p)
<1> DEFINE q0 == Picture(n, space, range, image.buffer, image.key.size,
                         ImageConv(image, colour'.conv))
           q == [q0 EXCEPT !.imported = TRUE]
<1>1. /\ q.from = image.buffer /\ q.of = Buffer(n) /\ q.size = image.key.size
      /\ q.wanted = pool.size /\ q.imported = TRUE /\ q.conv = ImageConv(image, colour'.conv)
      /\ q.wants = <<Use709(space, pool.size), range>> /\ q.declared = (space # "unspecified")
  BY DEF Picture
<1>2. drawn' = {q}
  BY DEF ZeroCopied
<1> HIDE DEF q
<1>3. Right(q)
  BY <1>1 DEF Right
<1> QED BY <1>2, <1>3

AllRight == \A p \in drawn : Right(p)

LEMMA FrameStep ==
  ASSUME IInv, AllRight, NEW n \in Surfaces, NEW space \in Spaces, NEW range \in Ranges,
         FrameHandle(n, space, range)
  PROVE  IInv' /\ AllRight'
<1>1. /\ phase = "streaming" /\ colour' = StreamColours(space, range)
      /\ machine' = machine /\ yuvSize' = yuvSize /\ pool' = pool
  BY DEF FrameHandle
<1>2. /\ ColourOK' /\ colour'.conv \in Conversion
      /\ space # "unspecified" => colour'.conv = <<Use709(space, pool.size), range>>
  BY <1>1, ColourStep DEF IInv
<1>3. \A p : Right(p) => Right(p)'
  BY <1>1 DEF Right
<1>4. ASSUME Fallback(n, space, range)
      PROVE  AllRight' /\ phase' \in {"streaming", "crashed"}
  BY <1>1, <1>2, <1>3, <1>4, FallbackRight DEF AllRight
<1>5. ASSUME phase' \in {"streaming", "crashed"}
      PROVE  PhaseOK'
  BY <1>1, <1>5 DEF IInv, PhaseOK
<1>6. ASSUME exports' = exports, gpu' = gpu
      PROVE  GpuOK(gpu, exports)' /\ ExportsOK'
  BY <1>1, <1>6 DEF IInv, GpuOK, ExportsOK, IdOf
<1>7. CASE Asked("NO_DRAW") /\ UNCHANGED <<exports, gpu, drawn, phase>>
  BY <1>1, <1>2, <1>3, <1>5, <1>6, <1>7 DEF IInv, AllRight
<1>8. CASE Fallback(n, space, range) /\ UNCHANGED <<exports, gpu>>
  BY <1>2, <1>4, <1>5, <1>6, <1>8 DEF IInv
<1>9. ASSUME NEW e \in ExportDmabuf(n), exports' = e.exports
      PROVE  /\ ExportsOK' /\ GpuOK(gpu, e.exports)
             /\ e.exports \in Seq(Export) /\ Len(e.exports) <= MaxExports
             /\ e.fd # 0 => /\ e.fd \in DOMAIN e.exports
                            /\ ~machine.reuseIds => e.exports[e.fd].buffer = Buffer(n)
  <2>1. /\ e.exports \in Seq(Export) /\ Len(e.exports) <= MaxExports
        /\ \A i \in DOMAIN e.exports : e.exports[i].surface = IdOf(e.exports[i].buffer)
        /\ \A i \in DOMAIN exports : i \in DOMAIN e.exports /\ e.exports[i] = exports[i]
        /\ e.fd # 0 => /\ e.fd \in DOMAIN e.exports
                       /\ ~machine.reuseIds => e.exports[e.fd].buffer = Buffer(n)
    BY ExportStep DEF IInv
  <2>2. GpuOK(gpu, e.exports)
    BY <2>1, MoreExports DEF IInv
  <2>3. ExportsOK'
    BY <1>1, <1>9, <2>1 DEF ExportsOK, IdOf
  <2> QED BY <2>1, <2>2, <2>3
<1>10. CASE \E e \in ExportDmabuf(n) :
              exports' = e.exports /\ Fallback(n, space, range) /\ UNCHANGED gpu
  <2>1. PICK e \in ExportDmabuf(n) :
               exports' = e.exports /\ Fallback(n, space, range) /\ UNCHANGED gpu
    BY <1>10
  <2>2. ExportsOK' /\ GpuOK(gpu, e.exports)
    BY <1>9, <2>1
  <2>3. GpuOK(gpu, exports)'
    BY <1>1, <2>1, <2>2 DEF GpuOK
  <2> QED BY <1>2, <1>4, <1>5, <2>1, <2>2, <2>3 DEF IInv
<1>11. CASE \E e \in ExportDmabuf(n) :
              /\ exports' = e.exports /\ e.fd # 0
              /\ \E r \in DrawDmabuf(e.fd, e.exports[e.fd].buffer, pool.size, colour'.conv) :
                   /\ gpu' = r.g
                   /\ \/ r.image.images = 0 /\ Fallback(n, space, range)
                      \/ ZeroCopied(n, space, range, r.image)
  <2>1. PICK e \in ExportDmabuf(n) :
              /\ exports' = e.exports /\ e.fd # 0
              /\ \E r \in DrawDmabuf(e.fd, e.exports[e.fd].buffer, pool.size, colour'.conv) :
                   /\ gpu' = r.g
                   /\ \/ r.image.images = 0 /\ Fallback(n, space, range)
                      \/ ZeroCopied(n, space, range, r.image)
    BY <1>11
  <2>2. PICK r \in DrawDmabuf(e.fd, e.exports[e.fd].buffer, pool.size, colour'.conv) :
               /\ gpu' = r.g
               /\ \/ r.image.images = 0 /\ Fallback(n, space, range)
                  \/ ZeroCopied(n, space, range, r.image)
    BY <2>1
  <2>3. /\ ExportsOK' /\ GpuOK(gpu, e.exports)
        /\ e.exports \in Seq(Export) /\ Len(e.exports) <= MaxExports
        /\ e.fd \in DOMAIN e.exports
        /\ ~machine.reuseIds => e.exports[e.fd].buffer = Buffer(n)
    BY <1>9, <2>1
  <2>4. pool.size \in Sizes
    BY DEF IInv, PhaseOK
  <2>5. Offers(r, e.exports, e.fd, pool.size, colour'.conv)
    BY <1>2, <2>3, <2>4, DrawOffers
  <2>6. GpuOK(gpu, exports)'
    BY <1>1, <2>1, <2>2, <2>5 DEF Offers, GpuOK
  <2>7. CASE Fallback(n, space, range)
    BY <1>2, <1>4, <1>5, <2>3, <2>6, <2>7 DEF IInv
  <2>8. CASE ZeroCopied(n, space, range, r.image)
    <3>1. /\ r.image.images > 0 /\ phase' = phase
      BY <2>8 DEF ZeroCopied
    <3>2. /\ ~machine.reuseIds => r.image.buffer = Buffer(n)
          /\ r.image.key.size = pool.size /\ ImageConv(r.image, colour'.conv) = colour'.conv
      BY <2>3, <2>5, <3>1 DEF Offers
    <3>3. \A p \in drawn' : Right(p)
      BY <1>2, <2>8, <3>2, ZeroCopiedRight
    <3>4. AllRight'
      BY <1>3, <3>3 DEF AllRight
    <3> QED BY <1>1, <1>2, <1>5, <2>3, <2>6, <3>1, <3>4 DEF IInv
  <2> QED BY <2>2, <2>7, <2>8
<1> QED BY <1>7, <1>8, <1>10, <1>11 DEF FrameHandle

-----------------------------------------------------------------------------
(* The other steps, and the theorems.                                      *)

\* egl_destroy leaves no image.
LEMMA DestroyStep == IInv /\ EglDestroy => IInv'
<1> SUFFICES ASSUME IInv, EglDestroy PROVE IInv'
  OBVIOUS
<1>1. /\ gpu' = [gpu EXCEPT !.nv12 = <<>>, !.external = <<>>, !.tiled = <<>>,
                   !.live = gpu.live - Images(gpu.nv12) - Images(gpu.external)
                              - Images(gpu.tiled)]
      /\ gpu \in Gpu /\ UNCHANGED <<machine, yuvSize, pool, exports, colour, drawn>>
      /\ phase' = "destroyed" /\ phase = "streaming"
  BY DEF EglDestroy, IInv, GpuOK
<1>2. /\ gpu'.nv12 = <<>> /\ gpu'.external = <<>> /\ gpu'.tiled = <<>> /\ gpu'.size = gpu.size
      /\ gpu'.live = gpu.live - Images(gpu.nv12) - Images(gpu.external) - Images(gpu.tiled)
  BY <1>1 DEF Gpu
<1>3. gpu.live = Images(gpu.nv12) + Images(gpu.external) + Images(gpu.tiled)
  BY DEF IInv, GpuOK
<1>4. Images(gpu.nv12) \in Nat /\ Images(gpu.external) \in Nat /\ Images(gpu.tiled) \in Nat
  BY <1>1, ImagesFinite DEF Gpu
<1>5. gpu'.live = 0
  BY <1>2, <1>3, <1>4
<1>6. gpu' = [nv12 |-> <<>>, external |-> <<>>, tiled |-> <<>>, size |-> gpu.size, live |-> 0]
  BY <1>1, <1>2, <1>5 DEF Gpu
<1>7. [nv12 |-> <<>>, external |-> <<>>, tiled |-> <<>>, size |-> gpu.size, live |-> 0] \in Gpu
  BY <1>1 DEF Gpu
<1>8. gpu' \in Gpu
  BY <1>6, <1>7
<1>9. GpuOK(gpu, exports)'
  BY <1>2, <1>5, <1>8, NoImages, EmptyCache DEF GpuOK
<1>10. ExportsOK' /\ ColourOK' /\ PhaseOK'
  BY <1>1, <1>5 DEF IInv, ExportsOK, IdOf, ColourOK, PhaseOK
<1> QED BY <1>9, <1>10 DEF IInv

LEMMA ZeroCopyInit == Init => IInv /\ AllRight
<1> SUFFICES ASSUME Init PROVE IInv /\ AllRight
  OBVIOUS
<1>1. gpu = [nv12 |-> <<>>, external |-> <<>>, tiled |-> <<>>, size |-> None, live |-> 0]
  BY DEF Init
<1>2. [nv12 |-> <<>>, external |-> <<>>, tiled |-> <<>>, size |-> None, live |-> 0] \in Gpu
  BY DEF Gpu
<1>3. GpuOK(gpu, exports)
  <2>1. gpu \in Gpu
    BY <1>1, <1>2
  <2>2. gpu.nv12 = <<>> /\ gpu.external = <<>> /\ gpu.tiled = <<>> /\ gpu.live = 0
    BY <1>1
  <2> QED BY <2>1, <2>2, NoImages, EmptyCache DEF GpuOK
<1>4. ExportsOK
  <2>1. <<>> \in Seq(Export) /\ Len(<<>>) = 0 /\ DOMAIN <<>> = {}
    OBVIOUS
  <2> QED BY <2>1, ZeroCopyAssumption DEF Init, ExportsOK
<1>5. ColourOK /\ AllRight
  BY DEF Init, ColourOK, AllRight
<1>6. PhaseOK
  BY ZeroCopyAssumption DEF Init, PhaseOK
<1> QED BY <1>3, <1>4, <1>5, <1>6 DEF IInv

LEMMA ZeroCopyStep == IInv /\ AllRight /\ [Next]_vars => IInv' /\ AllRight'
<1> SUFFICES ASSUME IInv, AllRight, [Next]_vars PROVE IInv' /\ AllRight'
  OBVIOUS
<1>1. ASSUME UNCHANGED <<machine, exports, gpu, colour>>
      PROVE  GpuOK(gpu, exports)' /\ ExportsOK' /\ ColourOK'
  BY <1>1 DEF IInv, GpuOK, ExportsOK, IdOf, ColourOK
<1>2. ASSUME UNCHANGED <<machine, yuvSize, drawn>>
      PROVE  AllRight'
  BY <1>2 DEF AllRight, Right
<1>3. CASE X11Setup
  BY <1>1, <1>2, <1>3 DEF X11Setup, IInv, PhaseOK
<1>4. CASE EglInit
  BY <1>1, <1>2, <1>4 DEF EglInit, IInv, PhaseOK, AllRight
<1>5. CASE \E n \in Surfaces, space \in Spaces, range \in Ranges : FrameHandle(n, space, range)
  BY <1>5, FrameStep
<1>6. CASE ChangeResolution
  <2>1. /\ pool' \in [no : 1 .. MaxPools, size : Sizes]
        /\ UNCHANGED <<machine, phase, yuvSize, exports, gpu, colour, drawn>>
    BY <1>6, ZeroCopyAssumption DEF ChangeResolution, IInv, PhaseOK
  <2> QED BY <1>1, <1>2, <2>1 DEF IInv, PhaseOK
<1>7. CASE EglDestroy
  BY <1>2, <1>7, DestroyStep DEF EglDestroy
<1>8. CASE UNCHANGED vars
  BY <1>1, <1>2, <1>8 DEF vars, IInv, PhaseOK
<1> QED BY <1>3, <1>4, <1>5, <1>6, <1>7, <1>8 DEF Next

LEMMA ZeroCopyInvariant == Spec => [](IInv /\ AllRight)
BY ZeroCopyInit, ZeroCopyStep, PTL DEF Spec

\* However surfaces, descriptors and images are cached, and whatever fails, the picture
\* comes from the memory of the frame it was drawn for, if the driver gives every
\* surface an id of its own.
THEOREM FrameAlwaysShown == Spec => []ShowsTheFrame
<1>1. AllRight => ShowsTheFrame
  BY DEF AllRight, Right, ShowsTheFrame
<1> QED BY <1>1, ZeroCopyInvariant, PTL

\* On every path the picture has the frame's size and the colours it declares, however
\* the resolution and the metadata change: the caches are reset where they must be,
\* and no conversion is kept too long.
THEOREM PictureAlwaysFits == Spec => []PictureFitsFrame
<1>1. AllRight => PictureFitsFrame
  BY DEF AllRight, Right, PictureFitsFrame
<1> QED BY <1>1, ZeroCopyInvariant, PTL

\* The images that exist are those of the caches, for any number of imports, of which
\* any may fail, resets and the end; no cache outgrows its array.
THEOREM ImagesNeverLost == Spec => []NoImageLost
<1>1. IInv => TypeOK
  <2> SUFFICES ASSUME IInv PROVE TypeOK
    OBVIOUS
  <2>1. /\ gpu.nv12 \in Seq(Entries) /\ gpu.external \in Seq(Entries)
        /\ gpu.tiled \in Seq(Entries) /\ gpu.size \in Sizes \cup {None} /\ gpu.live \in Nat
    BY DEF IInv, GpuOK, Gpu
  <2>2. \A c \in {gpu.nv12, gpu.external, gpu.tiled} : Len(c) <= MaxImages
    BY DEF IInv, GpuOK, GoodCache
  <2>3. exports \in Seq([surface : Nat \ {0}, buffer : Buffers]) /\ Len(exports) <= MaxExports
    BY DEF IInv, ExportsOK, Export
  <2>4. colour.conv \in Conversion \cup {NoConversion}
    BY DEF IInv, ColourOK
  <2> QED BY <2>1, <2>2, <2>3, <2>4 DEF IInv, PhaseOK, TypeOK
<1>2. IInv => NoImageLost
  BY <1>1 DEF IInv, GpuOK, PhaseOK, NoImageLost
<1> QED BY <1>2, ZeroCopyInvariant, PTL
=============================================================================
