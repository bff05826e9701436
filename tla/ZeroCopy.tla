------------------------------- MODULE ZeroCopy -------------------------------
(***************************************************************************)
(* The zero-copy path of the x11 renderer: a decoded VAAPI surface is      *)
(* exported as a dma-buf (ffmpeg_vaapi.c), the dma-buf is imported as EGL  *)
(* images (egl.c) and drawn, with the copy through system memory as the    *)
(* fallback (x11.c).  Surfaces, descriptors and images are cached on three *)
(* levels, under keys that outlive what they name.  All of it runs in the  *)
(* main thread: an action is one call of frame_handle.                     *)
(*                                                                         *)
(* A buffer is the memory behind a surface: the pool it belongs to and its *)
(* place in the pool.  Descriptors are never closed, so the i-th export    *)
(* has a descriptor of its own: its index.                                 *)
(***************************************************************************)
EXTENDS Naturals, Sequences, FiniteSets

CONSTANTS
  PoolSize,          \* surfaces of a pool
  Sizes,             \* the resolutions of the stream: the lines of a frame
  Spaces,            \* colour spaces a frame declares
  Ranges,            \* colour ranges a frame declares
  MaxPools,          \* bound: pools the decoder allocates
  MaxExports,        \* VAAPI_MAX_EXPORTS
  MaxImages,         \* DMABUF_MAX_IMAGES
  Machines           \* the drivers and environments there are, records of:
                     \*   reuseIds   a new pool gets the surface ids of the old one
                     \*   linear     the decoder's buffers are linear, not tiled
                     \*   gl         what EGL and GL can do
                     \*   compiles   the shader programs the driver compiles
                     \*   env        the MOONLIGHT_... variables that are set

Shaders == {"nv12", "external", "tiled"}

ASSUME ZeroCopyAssumption ==
  /\ PoolSize \in Nat \ {0} /\ MaxPools \in Nat \ {0}
  /\ MaxExports \in Nat \ {0} /\ MaxImages \in Nat \ {0}
  /\ Sizes \subseteq Nat \ {0}
  /\ Spaces \subseteq {"bt709", "bt601", "unspecified"}
  /\ Ranges \subseteq {"full", "limited"}
  /\ Machines \subseteq
       [reuseIds : BOOLEAN, linear : BOOLEAN, compiles : SUBSET Shaders,
        gl : SUBSET {"import", "OES_EGL_image_external"},
        env : SUBSET {"ZC_EXTERNAL", "ZC_COMPUTE", "ZC_TILED", "NO_ZC", "NO_DRAW"}]

VARIABLES
  machine,   \* the driver and the environment
  phase,     \* "new", "egl", "failed", "streaming", "crashed" or "destroyed"
  yuvSize,   \* the resolution vaapi_sw_yuv420p and the textures were made for
  pool,      \* the decoder's current pool, a record of "no" and "size"
  exports,   \* vaapi_exports: the surface and the buffer of each descriptor
  gpu,       \* the image caches of egl.c and the images that exist
  colour,    \* the last metadata, and the conversion derived from it
  drawn      \* the picture on the screen, if any

vars == <<machine, phase, yuvSize, pool, exports, gpu, colour, drawn>>

None == 0          \* no size

Surfaces == 1 .. PoolSize
Buffers == [pool : 1 .. MaxPools, n : Surfaces]

\* The id of the n-th surface of the current pool, and the memory behind it.
Surface(n) == IF machine.reuseIds THEN n ELSE (pool.no - 1) * PoolSize + n
Buffer(n) == [pool |-> pool.no, n |-> n]

\* The conversion a frame calls for.
Use709(space, size) == \/ space = "bt709"
                       \/ space = "unspecified" /\ size >= 720

\* A conversion: the matrix and the range.  NoConversion is the absence of one.
Conversion == BOOLEAN \X Ranges
NoConversion == <<>>

-----------------------------------------------------------------------------
(* egl_init: the programs that can be used once it returns.                *)

Asked(name) == name \in machine.env

ExternalAvailable ==
  /\ Asked("ZC_EXTERNAL") /\ ~Asked("ZC_COMPUTE")
  /\ {"import", "OES_EGL_image_external"} \subseteq machine.gl
  /\ "external" \in machine.compiles

Available(program) ==
  IF program = "external" THEN ExternalAvailable
  ELSE "import" \in machine.gl /\ program \in machine.compiles

-----------------------------------------------------------------------------
(* vaapi_export_dmabuf: what the cache may be after the call, and the      *)
(* descriptor, 0 when there is none.                                       *)

Exported(n) == {i \in DOMAIN exports : exports[i].surface = Surface(n)}

ExportNew(n) == Append(exports, [surface |-> Surface(n), buffer |-> Buffer(n)])

\* Variant: a full cache makes room by closing the oldest descriptor, whose number
\* the new one gets.
ExportEvicting(n) ==
  IF Exported(n) # {}
    THEN {[exports |-> exports, fd |-> CHOOSE i \in Exported(n) : TRUE]}
    ELSE IF Len(exports) < MaxExports
    THEN {[exports |-> ExportNew(n), fd |-> Len(exports) + 1]}
    ELSE {[exports |-> [exports EXCEPT ![1] = [surface |-> Surface(n),
                                               buffer |-> Buffer(n)]], fd |-> 1]}

ExportDmabuf(n) ==
  IF Exported(n) # {}
    THEN {[exports |-> exports, fd |-> CHOOSE i \in Exported(n) : TRUE]}
    ELSE {[exports |-> exports, fd |-> 0]}
           \cup (IF Len(exports) < MaxExports
                   THEN {[exports |-> ExportNew(n), fd |-> Len(exports) + 1]}
                   ELSE {})

-----------------------------------------------------------------------------
(* egl.c.  An entry of a cache holds the key, the memory the images were   *)
(* made of, and how many images it keeps alive: none when the import       *)
(* failed.  "live" counts the images that exist.                           *)

KeyOf(fd, size, conv) == [fd |-> fd, size |-> size, conv |-> conv]
Entry(key, buf, images) == [key |-> key, buffer |-> buf, images |-> images]
NoImage == Entry(KeyOf(0, None, NoConversion), Buffer(1), 0)

Keys == [fd : 1 .. MaxExports, size : Sizes, conv : Conversion \cup {NoConversion}]
Entries == [key : Keys, buffer : Buffers, images : 0 .. 2]

Images(cache) ==
  Cardinality({image \in (DOMAIN cache) \X {1, 2} : image[2] <= cache[image[1]].images})

\* The start of both drawing functions: each resets its own caches.
\* Variant: the images stay.
ResetKeepsImages(g, size) == [g EXCEPT !.size = size]

ResetIfResized(g, size) ==
  IF g.size = size THEN g
  ELSE IF machine.linear
    THEN [g EXCEPT !.size = size, !.nv12 = <<>>, !.external = <<>>,
                   !.live = @ - Images(g.nv12) - Images(g.external)]
    ELSE [g EXCEPT !.size = size, !.tiled = <<>>,
                   !.live = @ - Images(g.tiled)]

Hits(cache, key) == {i \in DOMAIN cache : cache[i].key = key}

\* dmabuf_get_nv12_external: the caches after it, and the entry it found.
GetExternal(g, key, buf) ==
  IF Hits(g.external, key) # {}
    THEN {[g |-> g, image |-> g.external[CHOOSE i \in Hits(g.external, key) : TRUE]]}
    ELSE IF Len(g.external) >= MaxImages
    THEN {[g |-> g, image |-> Entry(key, buf, 0)]}
    ELSE {[g |-> [g EXCEPT !.external = Append(@, Entry(key, buf, k)),
                          !.live = @ + k],
           image |-> Entry(key, buf, k)] : k \in {0, 1}}

\* dmabuf_get_nv12, whose key is the descriptor alone: when one of the two
\* images fails the other is destroyed, and the failure is remembered.
FdHits(cache, fd) == {i \in DOMAIN cache : cache[i].key.fd = fd}

\* Variant: the image that did succeed is left alone.
KeepPairLeaking(g, key, buf, k) ==
  [g EXCEPT !.nv12 = Append(@, Entry(key, buf, IF k = 2 THEN 2 ELSE 0)), !.live = @ + k]

KeepPair(g, key, buf, k) ==
  LET kept == IF k = 2 THEN 2 ELSE 0
  IN  [g EXCEPT !.nv12 = Append(@, Entry(key, buf, kept)), !.live = @ + kept]

GetNv12(g, key, buf) ==
  IF FdHits(g.nv12, key.fd) # {}
    THEN {[g |-> g, image |-> g.nv12[CHOOSE i \in FdHits(g.nv12, key.fd) : TRUE]]}
    ELSE IF Len(g.nv12) >= MaxImages
    THEN {[g |-> g, image |-> Entry(key, buf, 0)]}
    ELSE {[g |-> KeepPair(g, key, buf, k),
           image |-> Entry(key, buf, IF k = 2 THEN 2 ELSE 0)] : k \in 0 .. 2}

\* dmabuf_get_image, for tiled buffers: failures are not remembered.
GetTiled(g, key, buf) ==
  IF FdHits(g.tiled, key.fd) # {}
    THEN {[g |-> g, image |-> g.tiled[CHOOSE i \in FdHits(g.tiled, key.fd) : TRUE]]}
    ELSE {[g |-> g, image |-> Entry(key, buf, 0)]}
           \cup (IF Len(g.tiled) < MaxImages
                   THEN {[g |-> [g EXCEPT !.tiled = Append(@, Entry(key, buf, 1)), !.live = @ + 1],
                          image |-> Entry(key, buf, 1)]}
                   ELSE {})

\* draw_dmabuf_nv12_external: an image is used, but drawing may still fail.
DrawExternal(g, fd, buf, conv) ==
  IF ~Available("external") THEN {[g |-> g, image |-> NoImage]}
  ELSE UNION {{[g |-> r.g, image |-> NoImage]}
                \cup (IF r.image.images > 0 THEN {r} ELSE {}) :
              r \in GetExternal(g, KeyOf(fd, g.size, conv), buf)}

DrawPair(g, fd, buf) ==
  IF ~Available("nv12") THEN {[g |-> g, image |-> NoImage]}
  ELSE GetNv12(g, KeyOf(fd, g.size, NoConversion), buf)

\* egl_draw_dmabuf_nv12: the external image when it is asked for, then the
\* pair of planes.  An entry without images stands for -1.
DrawNv12(g0, fd, buf, size, conv) ==
  IF ~Available("nv12") /\ ~Available("external") THEN {[g |-> g0, image |-> NoImage]}
  ELSE LET g == ResetIfResized(g0, size) IN
       IF Asked("ZC_EXTERNAL")
         THEN UNION {IF r.image.images > 0 THEN {r} ELSE DrawPair(r.g, fd, buf) :
                     r \in DrawExternal(g, fd, buf, conv)}
         ELSE DrawPair(g, fd, buf)

\* egl_draw_dmabuf.
DrawTiled(g0, fd, buf, size) ==
  IF ~Available("tiled") THEN {[g |-> g0, image |-> NoImage]}
  ELSE GetTiled(ResetIfResized(g0, size), KeyOf(fd, size, NoConversion), buf)

DrawDmabuf(fd, buf, size, conv) ==
  IF machine.linear THEN DrawNv12(gpu, fd, buf, size, conv)
  ELSE IF Asked("ZC_TILED") THEN DrawTiled(gpu, fd, buf, size)
  ELSE {[g |-> gpu, image |-> NoImage]}

-----------------------------------------------------------------------------
(* x11.c.                                                                  *)

Init ==
  /\ machine \in Machines
  /\ phase = "new" /\ yuvSize = None
  /\ pool \in [no : {1}, size : Sizes]
  /\ exports = <<>>
  /\ gpu = [nv12 |-> <<>>, external |-> <<>>, tiled |-> <<>>, size |-> None,
            live |-> 0]
  /\ colour = [space |-> "unset", range |-> "unset", conv |-> NoConversion]
  /\ drawn = {}

\* The window and the decoder, either of which may be missing.
X11Setup ==
  /\ phase = "new"
  /\ phase' \in {"failed", "egl"}
  /\ UNCHANGED <<machine, yuvSize, pool, exports, gpu, colour, drawn>>

\* egl_init ends the program when there is no context; a program it cannot build
\* or may not use is missed when a frame is drawn.  The textures, and the frames
\* of the download path, are made for the size the stream begins with.
EglInit ==
  /\ phase = "egl"
  /\ \/ phase' = "failed" /\ UNCHANGED yuvSize
     \/ phase' = "streaming" /\ yuvSize' = pool.size
  /\ UNCHANGED <<machine, pool, exports, gpu, colour, drawn>>

\* apply_stream_colors: nothing is done when the metadata did not change.
StreamColours(space, range) ==
  IF colour.space = space /\ colour.range = range THEN colour
  ELSE [space |-> space, range |-> range,
        conv |-> <<Use709(space, pool.size), range>>]

\* What the screen shows after a frame was drawn from a buffer: "of" and
\* "wants" say which buffer and which conversion the frame called for.
Picture(n, space, range, from, size, conv) ==
  [from |-> from, of |-> Buffer(n), size |-> size, wanted |-> pool.size, conv |-> conv,
   wants |-> <<Use709(space, pool.size), range>>, declared |-> space # "unspecified",
   imported |-> FALSE]

\* An imported image carries the conversion of its key; the pair and the
\* tiled image are converted by the shader with the current one.
ImageConv(image, conv) == IF image.key.conv = NoConversion THEN conv ELSE image.key.conv

\* The fallback: the frame is downloaded, converted into vaapi_sw_yuv420p and
\* drawn from there; nothing is drawn when the transfer fails.  A larger frame
\* than that buffer was made for is written past its end.
Fallback(n, space, range) ==
  /\ drawn' \in {drawn, {Picture(n, space, range, Buffer(n), yuvSize, colour'.conv)}}
  /\ phase' \in {phase} \cup (IF pool.size > yuvSize THEN {"crashed"} ELSE {})

\* An image was found or made, and drawn.
ZeroCopied(n, space, range, image) ==
  /\ image.images > 0
  /\ drawn' = {[Picture(n, space, range, image.buffer, image.key.size,
                        ImageConv(image, colour'.conv)) EXCEPT !.imported = TRUE]}
  /\ UNCHANGED phase

FrameHandle(n, space, range) ==
  /\ phase = "streaming"
  /\ colour' = StreamColours(space, range)
  /\ \/ Asked("NO_DRAW") /\ UNCHANGED <<exports, gpu, drawn, phase>>
     \/ /\ Asked("NO_ZC") /\ ~Asked("NO_DRAW")
        /\ Fallback(n, space, range)
        /\ UNCHANGED <<exports, gpu>>
     \/ /\ ~Asked("NO_ZC") /\ ~Asked("NO_DRAW")
        /\ \E e \in ExportDmabuf(n) :
             /\ exports' = e.exports
             /\ \/ /\ e.fd = 0
                   /\ Fallback(n, space, range)
                   /\ UNCHANGED gpu
                \/ /\ e.fd # 0
                   /\ \E r \in DrawDmabuf(e.fd, e.exports[e.fd].buffer, pool.size,
                                          colour'.conv) :
                        /\ gpu' = r.g
                        /\ \/ r.image.images = 0 /\ Fallback(n, space, range)
                           \/ ZeroCopied(n, space, range, r.image)
  /\ UNCHANGED <<machine, yuvSize, pool>>

\* The stream changes its resolution: the decoder asks for the format again, and
\* va_get_format allocates a new pool.
ChangeResolution ==
  /\ phase = "streaming" /\ pool.no < MaxPools
  /\ \E size \in Sizes \ {pool.size} : pool' = [no |-> pool.no + 1, size |-> size]
  /\ UNCHANGED <<machine, phase, yuvSize, exports, gpu, colour, drawn>>

\* x11_cleanup: egl_destroy destroys the images of every cache.
EglDestroy ==
  /\ phase = "streaming"
  /\ phase' = "destroyed"
  /\ gpu' = [gpu EXCEPT !.nv12 = <<>>, !.external = <<>>, !.tiled = <<>>,
                        !.live = @ - Images(gpu.nv12) - Images(gpu.external)
                                   - Images(gpu.tiled)]
  /\ UNCHANGED <<machine, yuvSize, pool, exports, colour, drawn>>

Next ==
  \/ X11Setup \/ EglInit
  \/ \E n \in Surfaces, space \in Spaces, range \in Ranges : FrameHandle(n, space, range)
  \/ ChangeResolution
  \/ EglDestroy

Spec == Init /\ [][Next]_vars

-----------------------------------------------------------------------------
TypeOK ==
  /\ machine \in Machines
  /\ phase \in {"new", "egl", "failed", "streaming", "crashed", "destroyed"}
  /\ yuvSize \in Sizes \cup {None}
  /\ pool \in [no : 1 .. MaxPools, size : Sizes]
  /\ exports \in Seq([surface : Nat \ {0}, buffer : Buffers])
  /\ Len(exports) <= MaxExports
  /\ gpu.nv12 \in Seq(Entries) /\ gpu.external \in Seq(Entries)
  /\ gpu.tiled \in Seq(Entries)
  /\ \A c \in {gpu.nv12, gpu.external, gpu.tiled} : Len(c) <= MaxImages
  /\ gpu.size \in Sizes \cup {None}
  /\ gpu.live \in Nat
  /\ colour.conv \in Conversion \cup {NoConversion}

\* The picture comes from the memory of the frame it was drawn for: no
\* descriptor and no image of an earlier buffer stands for it (x11.c:267, "hand
\* the decoder's dma-buf straight to the GPU"), as long as the driver gives every
\* surface an id of its own.
ShowsTheFrame == ~machine.reuseIds => \A p \in drawn : p.from = p.of

\* An image describes its buffer at the resolution of the frame it is drawn
\* for, although the pair of planes is looked up by descriptor alone (the
\* download path keeps the resolution of x11_setup), and a frame that declares
\* its colours is converted with them on every path, whatever an image in a cache
\* was made for.
PictureFitsFrame ==
  \A p \in drawn :
    /\ p.size = (IF p.imported THEN p.wanted ELSE yuvSize)
    /\ p.declared => p.conv = p.wants

\* No image is lost: those that exist are the ones the caches will destroy,
\* after an import of which one plane failed and after egl_destroy too; the caches
\* keep to their sizes.
NoImageLost ==
  /\ TypeOK
  /\ gpu.live = Images(gpu.nv12) + Images(gpu.external) + Images(gpu.tiled)
  /\ phase = "destroyed" => gpu.live = 0
=============================================================================
