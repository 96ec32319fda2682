---------------------------- MODULE DisplayLayout ----------------------------
(***************************************************************************)
(* How an isolated virtual display is put into the desktop's layout        *)
(* (platform/windows/virtual_display.cpp, changeDisplaySettings2): it goes *)
(* to the lower right of the real displays, which then are moved together  *)
(* where its leaving left a hole, and all positions are shifted so that    *)
(* the primary display stays at the origin.  Display 1 is the virtual one. *)
(***************************************************************************)
EXTENDS Integers, Sequences, FiniteSets, FiniteSetsExt

CONSTANT DlLayouts \* layouts the desktop may have: sequences of [x, y, w, h]

DlBox == [x : Int, y : Int, w : Nat \ {0}, h : Nat \ {0}]

\* One display, the primary one, is at the origin.
ASSUME DlAssumption ==
  \A l \in DlLayouts :
    /\ l \in Seq(DlBox)
    /\ \E p \in DOMAIN l : \A i \in DOMAIN l : l[i].x = 0 /\ l[i].y = 0 <=> i = p

VARIABLES
  dlStart,     \* the layout found
  dlBoxes,     \* displayArray
  dlConnected, \* vConnected, as a set of indices
  dlFirst,     \* bFirstTime
  dlStep       \* "place", "connect", "apply", "done"

dlVars == <<dlStart, dlBoxes, dlConnected, dlFirst, dlStep>>

Displays == DOMAIN dlBoxes
Reals == Displays \ {1}
Abs(n) == IF n < 0 THEN -n ELSE n

Corners(b) == {b.x, b.x + b.w} \X {b.y, b.y + b.h}

\* All pairs of a corner of the connected and one of the unknown box.
Pairs(u, c) == {[l |-> p, r |-> q] : p \in Corners(c), q \in Corners(u)}

Dx(p) == p.l[1] - p.r[1]
Dy(p) == p.l[2] - p.r[2]

\* The corners on one line lie on both sides of each other.
Interleaved(ps, axis) ==
  /\ \E p \in ps : p.l[axis] <= p.r[axis]
  /\ \E p \in ps : p.l[axis] >= p.r[axis]

\* The boxes touch: in a corner, or along a vertical or a horizontal line.
Touching(u, c) ==
  \/ \E p \in Pairs(u, c) : Abs(Dx(p)) <= 1 /\ Abs(Dy(p)) <= 1
  \/ Interleaved({p \in Pairs(u, c) : Abs(Dx(p)) <= 1}, 2)
  \/ Interleaved({p \in Pairs(u, c) : Abs(Dy(p)) <= 1}, 1)

\* The first of the smallest differences, in the order of the corners.
Gaps(u, uw, c, cw) == <<c - u, c - u - uw, c + cw - u, c + cw - u - uw>>
FirstLeast(ds) == CHOOSE d \in {ds[k] : k \in 1 .. 4} :
  \A k \in 1 .. 4 : Abs(d) < Abs(ds[k]) \/ (Abs(d) = Abs(ds[k]) /\ \E j \in 1 .. k : ds[j] = d)
LeastDx(u, c) == FirstLeast(Gaps(u.x, u.w, c.x, c.w))
LeastDy(u, c) == FirstLeast(Gaps(u.y, u.h, c.y, c.h))

Shifted(b, dx, dy) == [b EXCEPT !.x = @ + dx, !.y = @ + dy]

YMove(u, c) == IF Touching(u, c) \/ Abs(LeastDy(u, c)) <= 1 THEN 0 ELSE LeastDy(u, c)

\* moveToBeConnected: sideways first, then up or down if that is not enough.
MoveToBeConnected(u, c) ==
  IF Touching(u, c) THEN <<0, 0>>
  ELSE IF Abs(LeastDx(u, c)) <= 1 THEN <<0, YMove(u, c)>>
  ELSE CHOOSE m \in {<<b.x - u.x, YMove(b, c)>> : b \in {Shifted(u, LeastDx(u, c), 0)}} : TRUE

Rightmost(i, j) ==
  LET r(k) == dlBoxes[k].x + dlBoxes[k].w
  IN r(i) > r(j) \/ (r(i) = r(j) /\ i <= j)

\* The rightmost real display, the lowest of these.
LowerRight(i, j) ==
  LET r(k) == dlBoxes[k].x + dlBoxes[k].w
      b(k) == dlBoxes[k].y + dlBoxes[k].h
  IN r(i) > r(j) \/ (r(i) = r(j) /\ (b(i) > b(j) \/ (b(i) = b(j) /\ i <= j)))

\* The lower right corner becomes the origin and the virtual display's place.
PlaceVirtual ==
  /\ dlStep = "place" /\ dlStep' = "connect"
  /\ LET max == {i \in Reals : \A j \in Reals : LowerRight(i, j)}
         ox == IF max = {} THEN 0 ELSE Max({dlBoxes[i].x + dlBoxes[i].w : i \in max})
         oy == IF max = {} THEN 0 ELSE Max({dlBoxes[i].y + dlBoxes[i].h : i \in max})
     IN dlBoxes' = [i \in Displays |-> IF i = 1 THEN [dlBoxes[i] EXCEPT !.x = 0, !.y = 0] ELSE Shifted(dlBoxes[i], -ox, -oy)]
  /\ dlConnected' = {1} /\ dlFirst' = TRUE /\ UNCHANGED dlStart

\* Pairs of a connected and another display, in the order they are looked at;
\* nothing connects to the virtual display but the first.
Candidates == {p \in dlConnected \X (Reals \ dlConnected) : dlFirst \/ p[1] # 1}
Before(p, q) == p[1] < q[1] \/ (p[1] = q[1] /\ p[2] <= q[2])
NeedsMove(p) == MoveToBeConnected(dlBoxes[p[2]], dlBoxes[p[1]])
InPlace == {p \in Candidates : NeedsMove(p) = <<0, 0>>}

ConnectDisplay ==
  /\ dlStep = "connect" /\ InPlace # {}
  /\ \E p \in InPlace : (\A q \in InPlace : Before(p, q)) /\ dlConnected' = dlConnected \cup {p[2]}
  /\ dlFirst' = FALSE
  /\ UNCHANGED <<dlStart, dlBoxes, dlStep>>

\* The display with the shortest way sideways moves.
MoveCloser ==
  /\ dlStep = "connect" /\ InPlace = {} /\ dlFirst' = FALSE
  /\ LET far == {[pair |-> p, move |-> NeedsMove(p)] : p \in {p \in Candidates : p[1] # 1}}
         nearest == {f.pair : f \in {f \in far : \A g \in far : Abs(f.move[1]) <= Abs(g.move[1])}}
     IN IF far = {} THEN dlStep' = "apply" /\ UNCHANGED dlBoxes
        ELSE \E f \in far : /\ f.pair \in nearest /\ \A q \in nearest : Before(f.pair, q)
                            /\ dlBoxes' = [dlBoxes EXCEPT ![f.pair[2]] = Shifted(@, f.move[1], f.move[2])] /\ UNCHANGED dlStep
  /\ UNCHANGED <<dlStart, dlConnected>>

\* The display at the origin of the layout found is the primary one.
Primary == {i \in Displays : dlStart[i].x = 0 /\ dlStart[i].y = 0}

ApplyLayout ==
  /\ dlStep = "apply" /\ dlStep' = "done"
  /\ LET p == Min(Primary)
     IN dlBoxes' = [i \in Displays |-> Shifted(dlBoxes[i], -dlBoxes[p].x, -dlBoxes[p].y)]
  /\ UNCHANGED <<dlStart, dlConnected, dlFirst>>

DlInit ==
  /\ dlStart \in DlLayouts /\ dlBoxes = dlStart /\ dlConnected = {} /\ dlFirst = TRUE /\ dlStep = "place"

DlNext == PlaceVirtual \/ ConnectDisplay \/ MoveCloser \/ ApplyLayout

\* The loop runs.
DlFairness == WF_dlVars(DlNext)

DlSpec == DlInit /\ [][DlNext]_dlVars /\ DlFairness

-----------------------------------------------------------------------------
Overlap(a, b) == a.x < b.x + b.w /\ b.x < a.x + a.w /\ a.y < b.y + b.h /\ b.y < a.y + a.h

\* The two share more than a corner.
ShareEdge(a, b) ==
  \/ (a.x + a.w = b.x \/ b.x + b.w = a.x) /\ a.y < b.y + b.h /\ b.y < a.y + a.h
  \/ (a.y + a.h = b.y \/ b.y + b.h = a.y) /\ a.x < b.x + b.w /\ b.x < a.x + a.w

\* The pointer cannot slip into the isolated virtual display over an edge: it
\* touches the real displays in corners only.
VirtualIsolated ==
  dlStep = "done" => \A i \in Reals : ~Overlap(dlBoxes[1], dlBoxes[i]) /\ ~ShareEdge(dlBoxes[1], dlBoxes[i])

\* So it is when the real displays were one piece without the virtual one;
\* and these keep their places relative to each other.
JoinedStayIsolated ==
  LET joined == \A S \in (SUBSET Reals) \ {{}, Reals} : \E i \in S, j \in Reals \ S : Touching(dlStart[i], dlStart[j])
  IN joined /\ dlStep = "done" =>
       /\ VirtualIsolated
       /\ \A i, j \in Reals : dlBoxes[i].x - dlBoxes[j].x = dlStart[i].x - dlStart[j].x
                           /\ dlBoxes[i].y - dlBoxes[j].y = dlStart[i].y - dlStart[j].y

\* The primary display is the primary display afterwards.
PrimaryKept ==
  dlStep = "done" => \A i \in Displays : dlStart[i].x = 0 /\ dlStart[i].y = 0 => dlBoxes[i].x = 0 /\ dlBoxes[i].y = 0

\* The search for displays to connect comes to an end.
LayoutEnds == dlStep = "connect" ~> dlStep = "done"

\* Isolating the virtual display leaves the others where the user put them.
LayoutIsolated == JoinedStayIsolated /\ PrimaryKept
=============================================================================
