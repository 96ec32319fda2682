---------------------------- MODULE SharedImages ----------------------------
(***************************************************************************)
(* The pool of captured images (video.cpp, captureThread) and the textures *)
(* behind them on Windows (platform/windows/display_vram.cpp): the capture *)
(* thread reuses an image nobody holds and trims the pool after a while;   *)
(* each encoder opens an image's texture on its own device and keeps it    *)
(* open until it notices that the texture is another.                      *)
(***************************************************************************)
EXTENDS Naturals, Sequences, FiniteSets, FiniteSetsExt

CONSTANTS
  IgSlots,       \* capture_buffer_size
  IgEncoders,
  IgTimeout,     \* trim_timeot
  IgMaxImages, IgMaxTextures

ASSUME IgAssumption == {IgSlots, IgTimeout, IgMaxImages, IgMaxTextures} \subseteq Nat

VARIABLES
  igPool,   \* imgs: image ids, 0 for an empty slot, in the order of the list
  igStamps, \* imgs_used_timestamps, from a count of 0, as ages; IgTimeout for old or none
  igPeaks,  \* the ages of the numbers of used images, never forgotten
  igTex,    \* of each image: [n, addr, dummy], n = 0 for none
  igWas,    \* of each image: the texture it had before, if the present one has its address
  igImages, igTextures, \* ids given so far
  igLast,   \* last_frame_variant's image, or 0
  igEvent,  \* the image in each encoder's event, or 0
  igConv,   \* the image each encoder converts, or 0
  igCtx     \* img_ctx_map: encoder -> image -> [n, addr], n = 0 for none

igVars == <<igPool, igStamps, igPeaks, igTex, igWas, igImages, igTextures, igLast, igEvent, igConv, igCtx>>

NoTexture == [n |-> 0, addr |-> 0, dummy |-> FALSE]
IgIds == 1 .. IgMaxImages

\* use_count() > 1
Used(i) == i \in {igLast} \cup {igEvent[e] : e \in IgEncoders} \cup {igConv[e] : e \in IgEncoders}

Allocated(pool) == {pool[k] : k \in DOMAIN pool} \ {0}

AnyAllocated == {k \in DOMAIN igPool : igPool[k] # 0}

\* Allocated but unused.
FreeSlots == {k \in DOMAIN igPool : igPool[k] # 0 /\ ~Used(igPool[k])}

\* The k-th of the list, which now holds image i, moves to the front.
ToFront(pool, k, i) ==
  [j \in DOMAIN pool |-> IF j = 1 THEN i ELSE IF j <= k THEN pool[j - 1] ELSE pool[j]]

Resized(stamps, n) == [k \in 1 .. n |-> IF k <= Len(stamps) THEN stamps[k] ELSE IgTimeout]

\* The counts whose timestamp is recent; stamps[c + 1] is of count c.
Recent(stamps) == {c \in 0 .. Len(stamps) - 1 : stamps[c + 1] < IgTimeout}

\* The n unused images at the end of the list are freed.
Trimmed(pool, out, n) ==
  LET spare == {k \in DOMAIN pool : pool[k] # 0 /\ pool[k] # out /\ ~Used(pool[k])}
      last == {k \in spare : Cardinality({j \in spare : j >= k}) <= n}
  IN [k \in DOMAIN pool |-> IF k \in last THEN 0 ELSE pool[k]]

\* trim_imgs
TrimImgs(pool, out) ==
  LET used == Cardinality({i \in Allocated(pool) : i = out \/ Used(i)})
      stamps == [Resized(igStamps, IF Len(igStamps) <= used THEN used + 1 ELSE Len(igStamps)) EXCEPT ![used + 1] = 0]
      target == Max({used} \cup {c \in Recent(stamps) : c >= used})
      count == Cardinality(Allocated(pool))
  IN /\ igPeaks' = [igPeaks EXCEPT ![used] = 0]
     /\ igPool' = IF count > target THEN Trimmed(pool, out, count - target) ELSE pool
     /\ igStamps' = IF count > target THEN Resized(stamps, target + 1) ELSE stamps

\* pull_free_image_callback: the first unused image, else the first empty
\* slot, moved to the front; the thread sleeps while there is neither.
Pulled(i) ==
  \/ /\ \E k \in FreeSlots : /\ \A j \in FreeSlots : k <= j
                             /\ i = igPool[k] /\ TrimImgs(ToFront(igPool, k, i), i)
     /\ UNCHANGED igImages
  \/ /\ FreeSlots = {} /\ i = igImages + 1 /\ igImages' = i
     /\ \E k \in {k \in DOMAIN igPool : igPool[k] = 0 /\ \A j \in 1 .. k - 1 : igPool[j] # 0} :
          TrimImgs(ToFront(igPool, k, i), i)

\* Addresses a new texture of image i may get: any that is free once the old
\* texture is released, the old one's too.
NewAddresses(i) == (1 .. igTextures + 1) \ {igTex[j].addr : j \in Allocated(igPool) \ {i}}

\* complete_img: a texture of the other kind is replaced.
CompleteImg(i, dummy) ==
  IF igTex[i].n # 0 /\ igTex[i].dummy = dummy THEN UNCHANGED <<igTex, igWas, igTextures>>
  ELSE /\ igTextures < IgMaxTextures /\ igTextures' = igTextures + 1
       /\ \E a \in NewAddresses(i) :
            /\ igTex' = [igTex EXCEPT ![i] = [n |-> igTextures', addr |-> a, dummy |-> dummy]]
            /\ igWas' = [igWas EXCEPT ![i] = IF a = igTex[i].addr THEN igTex[i].n ELSE 0]

\* Once a frame was captured there are no dummies any more.
StillDummies == \A i \in IgIds : igTex[i].n = 0 \/ igTex[i].dummy

\* The image is captured into and goes to every encoder; before the first
\* captured frame it is a dummy.
CaptureImage(i, dummy, kept) ==
  /\ dummy => ~kept /\ StillDummies
  /\ Pulled(i) /\ CompleteImg(i, dummy)
  /\ igEvent' = [e \in IgEncoders |-> i]
  /\ igLast' = IF kept THEN i ELSE igLast
  /\ UNCHANGED <<igConv, igCtx>>

ForwardLast ==
  /\ igLast # 0 /\ igEvent' = [e \in IgEncoders |-> igLast]
  /\ UNCHANGED <<igPool, igStamps, igPeaks, igTex, igWas, igImages, igTextures, igLast, igConv, igCtx>>

\* last_frame_variant is cleared before the next image is pulled.
ForgetLast ==
  /\ igLast # 0 /\ igLast' = 0
  /\ UNCHANGED <<igPool, igStamps, igPeaks, igTex, igWas, igImages, igTextures, igEvent, igConv, igCtx>>

TakeImage(e) ==
  /\ igEvent[e] # 0 /\ igConv[e] = 0
  /\ igConv' = [igConv EXCEPT ![e] = igEvent[e]] /\ igEvent' = [igEvent EXCEPT ![e] = 0]
  /\ UNCHANGED <<igPool, igStamps, igPeaks, igTex, igWas, igImages, igTextures, igLast, igCtx>>

\* initialize_image_context: what is open is used while the address is the same.
ImageContext(e, i) ==
  IF igCtx[e][i].n # 0 /\ igCtx[e][i].addr = igTex[i].addr THEN igCtx[e][i]
  ELSE [n |-> igTex[i].n, addr |-> igTex[i].addr]

\* convert: contexts of freed images go, the image is drawn and let go of.
Convert(e) ==
  /\ igConv[e] # 0
  /\ igCtx' = [igCtx EXCEPT ![e] =
       [i \in IgIds |-> IF i = igConv[e] THEN ImageContext(e, i)
                        ELSE IF i \in Allocated(igPool) THEN @[i] ELSE [n |-> 0, addr |-> 0]]]
  /\ igConv' = [igConv EXCEPT ![e] = 0]
  /\ UNCHANGED <<igPool, igStamps, igPeaks, igTex, igWas, igImages, igTextures, igLast, igEvent>>

Aged(a) == IF a < IgTimeout THEN a + 1 ELSE a

IgTick ==
  /\ igStamps' = [k \in DOMAIN igStamps |-> Aged(igStamps[k])]
  /\ igPeaks' = [c \in DOMAIN igPeaks |-> Aged(igPeaks[c])]
  /\ UNCHANGED <<igPool, igTex, igWas, igImages, igTextures, igLast, igEvent, igConv, igCtx>>

IgInit ==
  /\ igPool = [k \in 1 .. IgSlots |-> 0] /\ igStamps = <<>> /\ igPeaks = [c \in 0 .. IgSlots |-> IgTimeout]
  /\ igTex = [i \in IgIds |-> NoTexture] /\ igWas = [i \in IgIds |-> 0] /\ igImages = 0 /\ igTextures = 0 /\ igLast = 0
  /\ igEvent = [e \in IgEncoders |-> 0] /\ igConv = igEvent
  /\ igCtx = [e \in IgEncoders |-> [i \in IgIds |-> [n |-> 0, addr |-> 0]]]

IgNext ==
  \/ ForwardLast \/ ForgetLast \/ IgTick
  \/ \E i \in IgIds, dummy, kept \in BOOLEAN : CaptureImage(i, dummy, kept)
  \/ \E e \in IgEncoders : TakeImage(e) \/ Convert(e)

IgSpec == IgInit /\ [][IgNext]_igVars

-----------------------------------------------------------------------------
\* What an encoder draws is the texture the image has now.  Only if that one
\* was put at the address of the image's dummy, which nothing prevents, it may
\* be that dummy; it is never the texture of another image, whatever addresses
\* textures have (initialize_image_context).
EncoderDrawsImage ==
  \A e \in IgEncoders : \A i \in {igConv[e]} \ {0} : ImageContext(e, i).n \in {igTex[i].n, igWas[i]} \ {0}

\* The texture of an image an encoder holds, or has waiting, is never
\* replaced: its shared handle would be closed under the encoder's hands.
HeldTexturesStay ==
  [][\A e \in IgEncoders : \A i \in {igConv[e], igEvent[e]} \ {0} : igTex'[i] = igTex[i]]_igVars

\* The pool keeps as many images as were in use at some time within the
\* timeout, so that the capture of a burst does not allocate again and again.
PoolKeepsPeak ==
  \A c \in DOMAIN igPeaks : igPeaks[c] < IgTimeout => Cardinality(Allocated(igPool)) >= c
=============================================================================
