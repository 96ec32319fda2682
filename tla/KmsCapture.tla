----------------------------- MODULE KmsCapture -----------------------------
(***************************************************************************)
(* Capture from the kernel's display planes (platform/linux/kmsgrab.cpp).  *)
(* Displays are listed by counting planes and opened by counting again;    *)
(* every frame asks the kernel anew for the connector's HDR metadata, the  *)
(* plane's framebuffer and the cursor plane, while the compositor changes  *)
(* all of them.  A framebuffer is known by its id: what it shows does not  *)
(* change while the id stays.                                              *)
(***************************************************************************)
EXTENDS Integers, Sequences, FiniteSets

CONSTANTS
  KmPlanes,     \* planes of the card in order: "display" or "cursor"
  KmFbs,        \* framebuffers of the cursor, positive
  KmImages,     \* images of the pool
  KmMaxChanges, \* bound: changes by the compositor
  KmMaxFrames   \* bound: frames

VARIABLES
  kmPlane,    \* what each plane has: "none", "ok" or "denied" (a framebuffer, but no access)
  kmMode,     \* [hdr, size] of the captured display, each counting its changes
  kmPointer,  \* what the cursor plane shows: 0 or a framebuffer, and the part of it
  kmNames,    \* planes listed by kms_display_names, in order
  kmListed,   \* kmPlane when they were listed
  kmOpened,   \* plane of the open display: at most one
  kmWanted,   \* name it was opened by
  kmAgrees,   \* the planes were the same, and all to be read, as when they were listed
  kmInit,     \* mode found by init
  kmPc,       \* "closed", "hdr" (a frame is due) or "plane" (metadata was compared)
  kmCursor,   \* captured_cursor: [fb, part, visible, pixels, serial]
  kmImage,    \* images: [serial, pixels]
  kmShown,    \* cursor in the last frame: at most one <<fb, part>>
  kmMeant,    \* what the cursor plane showed when that frame was read
  kmLate,     \* frames in a row, since the mode changed, with other metadata than init found
  kmFrames, kmChanges

kmVars == <<kmPlane, kmMode, kmPointer, kmNames, kmListed, kmOpened, kmWanted, kmAgrees, kmInit, kmPc, kmCursor, kmImage, kmShown, kmMeant,
            kmLate, kmFrames, kmChanges>>
kmWorld == <<kmPlane, kmMode, kmPointer, kmChanges>>
kmList == <<kmNames, kmListed>>
kmOpen == <<kmOpened, kmWanted, kmAgrees, kmInit>>
kmDraw == <<kmCursor, kmImage, kmShown, kmMeant, kmLate, kmFrames>>

NoCursor == [fb |-> 0, part |-> 0, visible |-> FALSE, pixels |-> <<0, 0>>, serial |-> 0]

\* alloc_img: an image that has seen no cursor.
FreshImage == [serial |-> -1, pixels |-> <<0, 0>>]

-----------------------------------------------------------------------------
\* Planes with a framebuffer that are not cursors, as both scans see them.
InUse(planes) == SelectSeq([i \in 1 .. Len(KmPlanes) |-> i], LAMBDA i : KmPlanes[i] = "display" /\ planes[i] # "none")

\* kms_display_names gives up on a card where access is denied.
BeforeDenied(s, planes) ==
  LET denied == {i \in DOMAIN s : planes[s[i]] = "denied"}
  IN IF denied = {} THEN s ELSE SubSeq(s, 1, (CHOOSE i \in denied : \A j \in denied : i <= j) - 1)

ListNames ==
  /\ kmPc = "closed" /\ kmNames' = BeforeDenied(InUse(kmPlane), kmPlane) /\ kmListed' = kmPlane
  /\ UNCHANGED <<kmWorld, kmOpen, kmPc, kmDraw>>

\* init counts the planes once more.
Monitor(n) == {InUse(kmPlane)[i] : i \in {n} \cap DOMAIN InUse(kmPlane)}

\* The cursor plane, and the metadata the display has now.
OpenDisplay(n) ==
  /\ kmPc = "closed" /\ n \in DOMAIN kmNames
  /\ \E p \in Monitor(n) : kmPlane[p] = "ok" /\ kmOpened' = {p}
  /\ kmAgrees' = (kmListed = kmPlane /\ \A i \in DOMAIN InUse(kmPlane) : kmPlane[InUse(kmPlane)[i]] # "denied")
  /\ kmWanted' = n /\ kmInit' = kmMode /\ kmPc' = "hdr"
  /\ kmCursor' = NoCursor /\ kmImage' = [i \in KmImages |-> FreshImage] /\ kmShown' = {} /\ kmMeant' = <<0, 0>> /\ kmLate' = 0
  /\ UNCHANGED <<kmWorld, kmList, kmFrames>>

-----------------------------------------------------------------------------
\* capture leaves its loop; the display is dropped and listed anew.
Close == kmPc' = "closed" /\ kmOpened' = {} /\ UNCHANGED <<kmWanted, kmAgrees, kmInit>>

\* refresh, first part: other metadata than at init is a reason to reopen.
CompareHdr ==
  /\ kmPc = "hdr" /\ kmFrames < KmMaxFrames
  /\ \/ kmMode.hdr = kmInit.hdr /\ kmPc' = "plane" /\ UNCHANGED kmOpen
     \/ kmMode.hdr # kmInit.hdr /\ Close
  /\ UNCHANGED <<kmWorld, kmList, kmDraw>>

Dirty == kmPointer[1] # kmCursor.fb \/ kmPointer[2] # kmCursor.part

\* update_cursor: a new framebuffer or another part of it is downloaded,
\* which may fail; what is known of the old one stays then.
Cursors ==
  IF kmPointer[1] = 0 THEN {[kmCursor EXCEPT !.visible = FALSE, !.fb = 0]}
  ELSE IF ~Dirty THEN {kmCursor}
  ELSE {[fb |-> kmPointer[1], part |-> kmPointer[2], visible |-> TRUE, pixels |-> kmPointer, serial |-> kmCursor.serial + 1],
        [kmCursor EXCEPT !.visible = FALSE]}

\* An image takes the pixels if it has not had this cursor before.
WithCursor(image, cursor) ==
  IF image.serial = cursor.serial THEN image ELSE [serial |-> cursor.serial, pixels |-> cursor.pixels]

\* refresh, second part, and the rest of snapshot: no framebuffer is a frame
\* without news, no access an error, another size a reason to reopen.
ReadPlane ==
  /\ kmPc = "plane"
  /\ \E p \in kmOpened :
       \/ kmPlane[p] = "none" /\ kmPc' = "hdr" /\ UNCHANGED <<kmOpen, kmDraw>>
       \/ kmPlane[p] = "denied" /\ Close /\ UNCHANGED kmDraw
       \/ kmPlane[p] = "ok" /\ kmMode.size # kmInit.size /\ Close /\ UNCHANGED kmDraw
       \/ /\ kmPlane[p] = "ok" /\ kmMode.size = kmInit.size /\ kmPc' = "hdr" /\ UNCHANGED kmOpen
          /\ kmFrames' = kmFrames + 1 /\ kmLate' = IF kmMode.hdr = kmInit.hdr THEN 0 ELSE kmLate + 1
          /\ kmMeant' = kmPointer
          /\ \E cursor \in Cursors, i \in KmImages :
               /\ kmCursor' = cursor
               /\ IF cursor.visible
                  THEN kmImage' = [kmImage EXCEPT ![i] = WithCursor(@, cursor)]
                       /\ kmShown' = {WithCursor(kmImage[i], cursor).pixels}
                  ELSE kmShown' = {} /\ UNCHANGED kmImage
  /\ UNCHANGED <<kmWorld, kmList>>

\* The consumer of the images ends the capture.
StopCapture ==
  /\ kmPc = "hdr" /\ Close
  /\ UNCHANGED <<kmWorld, kmList, kmDraw>>

-----------------------------------------------------------------------------
\* The compositor.
ChangePlane(i, s) ==
  /\ kmChanges < KmMaxChanges /\ kmChanges' = kmChanges + 1 /\ kmPlane' = [kmPlane EXCEPT ![i] = s]
  /\ UNCHANGED <<kmMode, kmPointer, kmList, kmOpen, kmPc, kmDraw>>

ChangeMode ==
  /\ kmChanges < KmMaxChanges /\ kmChanges' = kmChanges + 1
  /\ kmMode' \in {[kmMode EXCEPT !.hdr = 1 - @], [kmMode EXCEPT !.size = 1 - @]} /\ kmLate' = 0
  /\ UNCHANGED <<kmPlane, kmPointer, kmList, kmOpen, kmPc, kmCursor, kmImage, kmShown, kmMeant, kmFrames>>

ChangeCursor(c) ==
  /\ kmChanges < KmMaxChanges /\ kmChanges' = kmChanges + 1 /\ c # kmPointer /\ kmPointer' = c
  /\ UNCHANGED <<kmPlane, kmMode, kmList, kmOpen, kmPc, kmDraw>>

KmInit ==
  /\ kmPlane = [i \in DOMAIN KmPlanes |-> "ok"] /\ kmMode = [hdr |-> 0, size |-> 0] /\ kmPointer = <<1, 0>>
  /\ kmNames = <<>> /\ kmListed = kmPlane /\ kmOpened = {} /\ kmWanted = 0 /\ kmAgrees = FALSE /\ kmInit = kmMode /\ kmPc = "closed"
  /\ kmCursor = NoCursor /\ kmImage = [i \in KmImages |-> FreshImage] /\ kmShown = {} /\ kmMeant = <<0, 0>> /\ kmLate = 0
  /\ kmFrames = 0 /\ kmChanges = 0

KmNext ==
  \/ ListNames \/ (\E n \in 1 .. Len(KmPlanes) : OpenDisplay(n)) \/ CompareHdr \/ ReadPlane \/ StopCapture
  \/ (\E i \in DOMAIN KmPlanes, s \in {"none", "ok", "denied"} : KmPlanes[i] = "display" /\ s # kmPlane[i] /\ ChangePlane(i, s))
  \/ ChangeMode \/ (\E c \in ({0} \cup KmFbs) \X {0, 1} : ChangeCursor(c))

KmSpec == KmInit /\ [][KmNext]_kmVars

-----------------------------------------------------------------------------
\* If every display in use could be read when they were listed, and the same
\* ones are in use when one is opened, that one is opened, whatever planes
\* are between them.
NamedDisplayOpened == \A p \in kmOpened : kmAgrees => p = kmNames[kmWanted]

\* The cursor drawn into a frame is the one the plane showed when the frame
\* was read, although images are reused and keep the pixels of older cursors.
CursorImageCurrent == kmShown # {} => kmShown = {kmMeant}

\* A change of HDR metadata that lasts is noticed before a second frame is delivered
\* under the wrong one.
HdrChangeNoticed == kmLate <= 1
=============================================================================
