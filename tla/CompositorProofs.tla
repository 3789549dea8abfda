-------------------------- MODULE CompositorProofs --------------------------
(***************************************************************************)
(* Proofs about the window manager, src/src/kernel/compositor.c, for every *)
(* screen, every number of windows and of applications and any sequence of *)
(* mouse reports.                                                          *)
(*                                                                         *)
(* handle_mouse is a composition of functions on comp, so the inductive    *)
(* invariant is a predicate on such a record, and each function keeps it.  *)
(* It adds to what the runs check that the grip of a dragged window is     *)
(* right of its left edge, without which dragging would push it off the    *)
(* screen, and that what a maximized window is restored to fits.           *)
(***************************************************************************)
EXTENDS Compositor, FiniteSetTheorems, WellFoundedInduction, TLAPS

RectType == [x : Int, y : Int, w : Int, h : Int]

WindowType ==
  [active : BOOLEAN, x : Int, y : Int, w : Int, h : Int, minimized : BOOLEAN, focused : BOOLEAN,
   dragging : BOOLEAN, owner : Apps, saved : RectType, dx : Int, dy : Int]

CompType ==
  [windows : [Windows -> WindowType], active_window : Windows \cup {None}, window_count : Int,
   drag_win : Windows \cup {None}, mouse : [x : 0..(Width - 1), y : 0..(Height - 1), left : BOOLEAN]]

\* A rectangle that begins on the screen and ends above the taskbar.
Fits(r) ==
  /\ r.x \in 0..(Width - 1) /\ r.y >= 0
  /\ r.y + r.h <= Height - GUI_TASKBAR_H /\ r.w > 0 /\ r.h > 0

\* What holds of a live window but for the focus.
Placed(c, i) ==
  LET w == c.windows[i] IN
    /\ w.dragging <=> c.drag_win = i
    /\ w.dragging => ~w.minimized /\ w.dx >= 0
    /\ Fits(w)
    /\ w.w = Width => Fits(w.saved)

Steady(c) ==
  /\ c \in CompType
  /\ c.window_count = Cardinality(Live(c))
  /\ c.drag_win \in Live(c) \cup {None}
  /\ \A i \in Live(c) : Placed(c, i)

Focus(c) ==
  /\ c.active_window \in Live(c) \cup {None}
  /\ c.drag_win # None => c.active_window = c.drag_win
  /\ \A i \in Live(c) : c.windows[i].focused <=> c.active_window = i

Sound(c) == Steady(c) /\ Focus(c)

\* What the applications remember of the windows.
Remembered(c, a) ==
  /\ a \in [Apps -> Windows \cup {None}]
  /\ \A i \in Live(c) : a[c.windows[i].owner] = i

DInv ==
  /\ Sound(comp)
  /\ comp.drag_win # None => comp.mouse.left
  /\ Remembered(comp, app_win)

-----------------------------------------------------------------------------
(***************************************************************************)
(* Numbers and scans of the window table                                   *)
(***************************************************************************)

LEMMA Sizes ==
  /\ Width \in Nat \ {0} /\ Height \in Nat \ {0} /\ GUI_TITLEBAR_H \in Nat \ {0}
  /\ GUI_MAX_WINDOWS \in Nat \ {0} /\ GUI_TASKBAR_H \in Nat /\ About \in Apps
  /\ Windows \subseteq Nat /\ None \notin Windows /\ None = -1
BY CompositorAssumption DEF Windows, None

LEMMA MinimalIsLeast ==
  ASSUME NEW R, IsWellFoundedOn(R, Nat), \A x, y \in Nat : y < x => <<y, x>> \in R,
         NEW S, S \subseteq Nat, S # {}
  PROVE  \E x \in S : \A y \in S : x <= y
<1>1. PICK x \in S : \A y \in S : ~(<<y, x>> \in R)
  BY WFMin
<1>2. ASSUME NEW y \in S PROVE ~(y < x)
  <2>1. x \in Nat /\ y \in Nat
    OBVIOUS
  <2>2. y < x => <<y, x>> \in R
    BY <2>1, Zenon
  <2> QED BY <2>2, <1>1, Zenon
<1>3. \A y \in S : x <= y
  BY <1>2
<1> QED BY <1>3

LEMMA LeastExists ==
  ASSUME NEW S, S \subseteq Nat, S # {}
  PROVE  \E x \in S : \A y \in S : x <= y
<1>1. IsWellFoundedOn(OpToRel(<, Nat), Nat)
  BY NatLessThanWellFounded
<1>2. \A x, y \in Nat : y < x => <<y, x>> \in OpToRel(<, Nat)
  BY DEF OpToRel
<1> QED BY <1>1, <1>2, MinimalIsLeast, Zenon

\* The first free slot is one of them.
LEMMA FirstFound ==
  ASSUME NEW S, S \subseteq Windows, S # {}
  PROVE  Min(S) \in S
<1>1. S \subseteq Nat
  BY Sizes
<1> QED BY <1>1, LeastExists DEF Min

\* The topmost window that is hit is one of them.
LEMMA TopmostFound ==
  ASSUME NEW S, S \subseteq Windows, S # {}
  PROVE  Max(S) \in S
<1> DEFINE T == {GUI_MAX_WINDOWS - i : i \in S}
<1>1. T \subseteq Nat /\ T # {}
  <2>1. ASSUME NEW i \in S PROVE GUI_MAX_WINDOWS - i \in Nat
    <3>1. i \in Nat /\ i <= GUI_MAX_WINDOWS - 1 /\ GUI_MAX_WINDOWS \in Nat
      BY Sizes DEF Windows
    <3> QED BY <3>1
  <2> QED BY <2>1
<1>2. PICK t \in T : \A u \in T : t <= u
  <2> HIDE DEF T
  <2> QED BY <1>1, LeastExists
<1>3. PICK m \in S : t = GUI_MAX_WINDOWS - m
  BY <1>2
<1>4. ASSUME NEW i \in S PROVE m >= i
  <2>1. m \in Nat /\ i \in Nat /\ GUI_MAX_WINDOWS \in Nat
    BY Sizes
  <2>2. GUI_MAX_WINDOWS - m <= GUI_MAX_WINDOWS - i
    BY <1>2, <1>3
  <2> QED BY <2>1, <2>2
<1> QED BY <1>4 DEF Max

LEMMA GreaterOf ==
  ASSUME NEW a \in Int, NEW b \in Int
  PROVE  Max({a, b}) = IF a >= b THEN a ELSE b
BY DEF Max

LEMMA LesserOf ==
  ASSUME NEW a \in Int, NEW b \in Int
  PROVE  Min({a, b}) = IF a <= b THEN a ELSE b
BY DEF Min

LEMMA Clamped ==
  ASSUME NEW v \in Int, NEW bound \in Nat \ {0}
  PROVE  Clamp(v, bound) \in 0..(bound - 1)
<1>1. Min({v, bound - 1}) = IF v <= bound - 1 THEN v ELSE bound - 1
  BY LesserOf
<1>2. Min({v, bound - 1}) \in Int /\ Min({v, bound - 1}) <= bound - 1
  BY <1>1
<1> DEFINE m == Min({v, bound - 1})
<1>3. Clamp(v, bound) = Max({0, m})
  BY DEF Clamp
<1>4. m \in Int /\ m <= bound - 1
  BY <1>2
<1> HIDE DEF m
<1>5. Max({0, m}) = IF 0 >= m THEN 0 ELSE m
  BY <1>4, GreaterOf
<1> QED BY <1>3, <1>4, <1>5

LEMMA LiveFinite ==
  ASSUME NEW c
  PROVE  IsFiniteSet(Live(c)) /\ Cardinality(Live(c)) \in Nat
<1>1. IsFiniteSet(Windows)
  BY Sizes, FS_Interval DEF Windows
<1> QED BY <1>1, FS_Subset, FS_CardinalityType DEF Live

\* A rectangle keeps fitting when it is copied.
LEMMA FitsSame ==
  ASSUME NEW r, NEW s, r.x = s.x, r.y = s.y, r.w = s.w, r.h = s.h, Fits(s)
  PROVE  Fits(r)
BY DEF Fits

-----------------------------------------------------------------------------
(***************************************************************************)
(* The functions of compositor.c                                           *)
(***************************************************************************)

\* The windows are the same and belong to the same applications.
SameOwners(c, f) ==
  /\ Live(f) = Live(c)
  /\ \A i \in Live(c) : f.windows[i].owner = c.windows[i].owner

LEMMA LiveIndex ==
  ASSUME NEW c \in CompType, NEW i \in Live(c)
  PROVE  /\ i \in Windows /\ i # None /\ c.windows[i] \in WindowType
         /\ c.windows[i].active = TRUE
BY Sizes DEF Live, CompType, WindowType

\* A step on window i, which stays live, is right if it leaves i right.
LEMMA OneWindow ==
  ASSUME NEW c, Steady(c), NEW f \in CompType, NEW i \in Live(c),
         \A j \in Windows \ {i} : f.windows[j] = c.windows[j],
         f.windows[i].active = TRUE, f.windows[i].owner = c.windows[i].owner,
         f.window_count = c.window_count,
         c.drag_win \in {i, None}, f.drag_win \in {i, None}, Placed(f, i)
  PROVE  /\ Steady(f) /\ SameOwners(c, f)
         /\ Focus(c) /\ f.active_window = c.active_window
              /\ f.windows[i].focused = c.windows[i].focused
              /\ (f.drag_win # None => c.active_window = i) => Focus(f)
<1>1. c \in CompType /\ i \in Windows /\ i # None
  BY LiveIndex DEF Steady
<1>2. Live(f) = Live(c)
  BY <1>1 DEF Live
<1>3. SameOwners(c, f)
  BY <1>1, <1>2, LiveIndex DEF SameOwners
<1>4. ASSUME NEW j \in Live(f) PROVE Placed(f, j)
  <2>1. CASE j = i
    BY <2>1
  <2>2. CASE j # i
    <3>1. j \in Windows /\ j # None /\ Placed(c, j) /\ f.windows[j] = c.windows[j]
      BY <1>1, <1>2, <2>2, LiveIndex DEF Steady
    <3>2. c.drag_win # j /\ f.drag_win # j
      BY <3>1, <2>2
    <3> QED BY <3>1, <3>2 DEF Placed
  <2> QED BY <2>1, <2>2
<1>5. Steady(f)
  BY <1>2, <1>4 DEF Steady
<1>6. ASSUME Focus(c), f.active_window = c.active_window,
             f.windows[i].focused = c.windows[i].focused,
             f.drag_win # None => c.active_window = i
      PROVE  Focus(f)
  <2>1. \A j \in Live(f) : f.windows[j].focused <=> f.active_window = j
    BY <1>1, <1>2, <1>6, LiveIndex DEF Focus
  <2> QED BY <1>1, <1>2, <1>6, <2>1 DEF Focus
<1> QED BY <1>3, <1>5, <1>6

\* Focusing changes one field of the windows and active_window.
LEMMA FocusFields ==
  ASSUME NEW c \in CompType, NEW id \in Windows
  PROVE  LET f == gui_focus_window(c, id) IN
           /\ f \in CompType
           /\ f.active_window = id /\ f.window_count = c.window_count
           /\ f.drag_win = c.drag_win /\ f.mouse = c.mouse
           /\ \A i \in Windows : f.windows[i] = [c.windows[i] EXCEPT !.focused = i = id]
           /\ Live(f) = Live(c)
<1> DEFINE f == gui_focus_window(c, id)
<1>1. f = [c EXCEPT !.windows = [i \in Windows |-> [c.windows[i] EXCEPT !.focused = i = id]],
                    !.active_window = id]
  BY DEF gui_focus_window
<1>2. [i \in Windows |-> [c.windows[i] EXCEPT !.focused = i = id]] \in [Windows -> WindowType]
  BY DEF CompType, WindowType
<1> HIDE DEF f
<1>3. /\ f \in CompType
      /\ f.windows = [i \in Windows |-> [c.windows[i] EXCEPT !.focused = i = id]]
      /\ f.active_window = id /\ f.window_count = c.window_count
      /\ f.drag_win = c.drag_win /\ f.mouse = c.mouse
  BY <1>1, <1>2 DEF CompType
<1>4. \A i \in Windows : f.windows[i].active = c.windows[i].active
  BY <1>3 DEF CompType, WindowType
<1>5. Live(f) = Live(c)
  BY <1>4 DEF Live
<1> QED BY <1>3, <1>5 DEF f

LEMMA FocusKeeps ==
  ASSUME NEW c, Steady(c), NEW id \in Live(c), c.drag_win \in {id, None}
  PROVE  LET f == gui_focus_window(c, id) IN
           /\ Sound(f) /\ SameOwners(c, f) /\ f.mouse = c.mouse /\ f.drag_win = c.drag_win
<1> DEFINE f == gui_focus_window(c, id)
<1>1. c \in CompType /\ id \in Windows /\ id # None
  BY LiveIndex DEF Steady
<1>2. /\ f \in CompType
      /\ f.active_window = id /\ f.window_count = c.window_count
      /\ f.drag_win = c.drag_win /\ f.mouse = c.mouse
      /\ \A i \in Windows : f.windows[i] = [c.windows[i] EXCEPT !.focused = i = id]
      /\ Live(f) = Live(c)
  BY <1>1, FocusFields
<1> HIDE DEF f
<1>3. ASSUME NEW i \in Live(c)
      PROVE  /\ f.windows[i].owner = c.windows[i].owner
             /\ f.windows[i].focused <=> i = id
             /\ Placed(f, i)
  <2> DEFINE v == c.windows[i]  w == f.windows[i]
  <2>1. i \in Windows /\ v \in WindowType
    BY <1>1, LiveIndex
  <2>2. w = [v EXCEPT !.focused = i = id]
    BY <1>2, <2>1
  <2> HIDE DEF v, w
  <2>3. /\ w.x = v.x /\ w.y = v.y /\ w.w = v.w /\ w.h = v.h /\ w.saved = v.saved /\ w.owner = v.owner
        /\ w.dragging = v.dragging /\ w.minimized = v.minimized /\ w.dx = v.dx
        /\ w.focused <=> i = id
    BY <2>1, <2>2 DEF WindowType
  <2>4. Placed(c, i)
    BY DEF Steady
  <2>5. Fits(v)
    BY <2>4 DEF Placed, v
  <2>6. Fits(w)
    BY <2>3, <2>5, FitsSame
  <2>7. Placed(f, i)
    BY <1>2, <2>3, <2>4, <2>6 DEF Placed, v, w
  <2> QED BY <2>3, <2>7 DEF v, w
<1>4. Steady(f)
  BY <1>2, <1>3 DEF Steady
<1>5. Focus(f)
  BY <1>1, <1>2, <1>3 DEF Focus
<1>6. SameOwners(c, f)
  BY <1>2, <1>3 DEF SameOwners
<1> QED BY <1>2, <1>4, <1>5, <1>6 DEF Sound, f

\* A press on a title bar: the grip is right of the window's left edge.
LEMMA GrabKeeps ==
  ASSUME NEW c, Steady(c), NEW i \in Live(c), c.drag_win = None, ~c.windows[i].minimized,
         c.mouse.x >= c.windows[i].x
  PROVE  LET f == Grabbed(c, i) IN
           Steady(f) /\ SameOwners(c, f) /\ f.mouse = c.mouse /\ f.drag_win = i
<1> DEFINE v == c.windows[i]
           gx == c.mouse.x - v.x
           gy == c.mouse.y - v.y
           w == [v EXCEPT !.dragging = TRUE, !.dx = gx, !.dy = gy]
           f == Grabbed(c, i)
<1>1. c \in CompType /\ i \in Windows /\ i # None /\ v \in WindowType /\ v.active = TRUE
  BY LiveIndex DEF Steady
<1>2. c.mouse.x \in Int /\ c.mouse.y \in Int /\ v.x \in Int /\ v.y \in Int
  BY <1>1, Sizes DEF CompType, WindowType
<1>3. /\ w \in WindowType /\ w.dragging = TRUE /\ w.dx = gx /\ w.minimized = v.minimized
      /\ w.x = v.x /\ w.y = v.y /\ w.w = v.w /\ w.h = v.h /\ w.saved = v.saved /\ w.owner = v.owner
      /\ w.active = v.active
  <2>1. gx \in Int /\ gy \in Int
    BY <1>2
  <2> HIDE DEF gx, gy, v
  <2> QED BY <1>1, <2>1 DEF WindowType
<1>4. f = [c EXCEPT !.windows = [c.windows EXCEPT ![i] = w], !.drag_win = i]
  BY <1>1 DEF Grabbed, CompType, WindowType
<1> HIDE DEF w, f
<1>5. /\ f \in CompType /\ f.windows[i] = w /\ f.window_count = c.window_count
      /\ f.drag_win = i /\ f.mouse = c.mouse
      /\ \A j \in Windows \ {i} : f.windows[j] = c.windows[j]
  BY <1>1, <1>3, <1>4 DEF CompType
<1>6. Placed(c, i)
  BY DEF Steady
<1>7. Fits(v)
  BY <1>6 DEF Placed
<1>8. Fits(w)
  BY <1>3, <1>7, FitsSame
<1>9. Placed(f, i)
  BY <1>2, <1>3, <1>5, <1>6, <1>8 DEF Placed
<1>10. Steady(f) /\ SameOwners(c, f)
  BY <1>1, <1>3, <1>5, <1>9, OneWindow
<1> QED BY <1>5, <1>10 DEF f

LEMMA MinimizeKeeps ==
  ASSUME NEW c, Sound(c), NEW i \in Live(c), c.drag_win = None
  PROVE  LET f == gui_minimize_window(c, i) IN
           Sound(f) /\ SameOwners(c, f) /\ f.mouse = c.mouse /\ f.drag_win = None
<1> DEFINE v == c.windows[i]
           w == [v EXCEPT !.minimized = ~v.minimized]
           f == gui_minimize_window(c, i)
<1>1. /\ c \in CompType /\ i \in Windows /\ i # None /\ v \in WindowType /\ v.active = TRUE
      /\ Steady(c) /\ Focus(c)
  BY LiveIndex DEF Steady, Sound
<1>2. /\ w \in WindowType /\ w.dragging = v.dragging /\ w.focused = v.focused
      /\ w.x = v.x /\ w.y = v.y /\ w.w = v.w /\ w.h = v.h /\ w.saved = v.saved /\ w.owner = v.owner
      /\ w.active = v.active
  BY <1>1 DEF WindowType
<1>3. f = [c EXCEPT !.windows = [c.windows EXCEPT ![i] = w]]
  BY <1>1 DEF gui_minimize_window, CompType, WindowType
<1> HIDE DEF w, f
<1>4. /\ f \in CompType /\ f.windows[i] = w /\ f.window_count = c.window_count
      /\ f.drag_win = None /\ f.mouse = c.mouse /\ f.active_window = c.active_window
      /\ \A j \in Windows \ {i} : f.windows[j] = c.windows[j]
  BY <1>1, <1>2, <1>3 DEF CompType
<1>5. Placed(c, i)
  BY <1>1 DEF Steady
<1>6. Fits(v)
  BY <1>5 DEF Placed
<1>7. Fits(w)
  BY <1>2, <1>6, FitsSame
<1>8. Placed(f, i)
  BY <1>1, <1>2, <1>4, <1>5, <1>7 DEF Placed
<1>9. Steady(f) /\ SameOwners(c, f) /\ Focus(f)
  BY <1>1, <1>2, <1>4, <1>8, OneWindow
<1> QED BY <1>4, <1>9 DEF f, Sound

\* The room above the taskbar, as soon as an application has a window.
LEMMA Room ==
  ASSUME NEW a \in Apps
  PROVE  LET g == Geometry[a] IN
           /\ g.x \in 0..(Width - 1) /\ g.y \in Nat /\ g.w \in 1..(Width - 1) /\ g.h \in Nat \ {0}
           /\ g.y + g.h <= Height - GUI_TASKBAR_H /\ Height - GUI_TASKBAR_H \in Nat \ {0}
<1> DEFINE g == Geometry[a]
<1>1. /\ g.x \in 0..(Width - 1) /\ g.y \in 0..(Height - GUI_TASKBAR_H - g.h)
      /\ g.w \in 1..(Width - 1) /\ g.h \in GUI_TITLEBAR_H..(Height - GUI_TASKBAR_H)
  BY CompositorAssumption
<1> HIDE DEF g
<1>2. g.h \in Int /\ g.h >= GUI_TITLEBAR_H /\ g.h <= Height - GUI_TASKBAR_H
  BY <1>1, Sizes
<1>3. g.h \in Nat \ {0} /\ Height - GUI_TASKBAR_H \in Nat \ {0}
  BY <1>2, Sizes
<1>4. g.y \in Nat /\ g.y + g.h <= Height - GUI_TASKBAR_H
  BY <1>1, <1>3, Sizes
<1> QED BY <1>1, <1>3, <1>4 DEF g

\* Maximizing saves a rectangle that fits, restoring takes it back.
LEMMA MaximizeKeeps ==
  ASSUME NEW c, Sound(c), NEW i \in Live(c), c.drag_win = None
  PROVE  LET f == [c EXCEPT !.windows[i] = Maximized(c.windows[i])] IN
           Sound(f) /\ SameOwners(c, f) /\ f.mouse = c.mouse /\ f.drag_win = None
<1> DEFINE v == c.windows[i]
           w == Maximized(v)
           f == [c EXCEPT !.windows[i] = w]
<1>1. /\ c \in CompType /\ i \in Windows /\ i # None /\ v \in WindowType /\ v.active = TRUE
      /\ Steady(c) /\ Focus(c) /\ v.owner \in Apps
  BY LiveIndex DEF Steady, Sound, WindowType
<1>2. Placed(c, i)
  BY <1>1 DEF Steady
<1>3. Fits(v) /\ (v.w = Width => Fits(v.saved))
  BY <1>2 DEF Placed
<1> HIDE DEF v
<1>4. /\ w \in WindowType /\ w.dragging = v.dragging /\ w.focused = v.focused
      /\ w.dx = v.dx /\ w.minimized = v.minimized /\ w.owner = v.owner /\ w.active = v.active
      /\ Fits(w) /\ (w.w = Width => Fits(w.saved))
  <2>1. CASE v.w = Width
    <3>1. w = [v EXCEPT !.x = v.saved.x, !.y = v.saved.y, !.w = v.saved.w, !.h = v.saved.h]
      BY <2>1 DEF Maximized
    <3> HIDE DEF w
    <3>2. /\ w \in WindowType /\ w.dragging = v.dragging /\ w.focused = v.focused
          /\ w.dx = v.dx /\ w.minimized = v.minimized /\ w.owner = v.owner /\ w.active = v.active
          /\ w.x = v.saved.x /\ w.y = v.saved.y /\ w.w = v.saved.w /\ w.h = v.saved.h
          /\ w.saved = v.saved
      BY <1>1, <3>1 DEF WindowType, RectType
    <3>3. Fits(v.saved)
      BY <1>3, <2>1
    <3>4. Fits(w)
      BY <3>2, <3>3, FitsSame
    <3> QED BY <3>2, <3>3, <3>4
  <2>2. CASE v.w # Width
    <3> DEFINE room == Height - GUI_TASKBAR_H
    <3>1. w = [v EXCEPT !.saved = Area(v), !.x = 0, !.y = 0, !.w = Width, !.h = room]
      BY <2>2 DEF Maximized
    <3>2. /\ Area(v) \in RectType /\ Area(v).x = v.x /\ Area(v).y = v.y
          /\ Area(v).w = v.w /\ Area(v).h = v.h
      BY <1>1 DEF WindowType, RectType, Area, Rect
    <3>3. Fits(Area(v))
      BY <1>3, <3>2, FitsSame
    <3>4. Width \in Nat \ {0} /\ room \in Nat \ {0}
      BY <1>1, Sizes, Room
    <3> HIDE DEF w, room
    <3>5. /\ w \in WindowType /\ w.dragging = v.dragging /\ w.focused = v.focused
          /\ w.dx = v.dx /\ w.minimized = v.minimized /\ w.owner = v.owner /\ w.active = v.active
          /\ w.x = 0 /\ w.y = 0 /\ w.w = Width /\ w.h = room
          /\ w.saved = Area(v)
      <4>1. Width \in Int /\ room \in Int /\ 0 \in Int
        BY <3>4
      <4> QED BY <1>1, <3>1, <3>2, <4>1 DEF WindowType
    <3>6. Fits(w)
      BY <3>4, <3>5 DEF Fits, room
    <3> QED BY <3>3, <3>5, <3>6
  <2> QED BY <2>1, <2>2
<1> HIDE DEF w
<1>5. /\ f \in CompType /\ f.windows[i] = w /\ f.window_count = c.window_count
      /\ f.drag_win = None /\ f.mouse = c.mouse /\ f.active_window = c.active_window
      /\ \A j \in Windows \ {i} : f.windows[j] = c.windows[j]
  BY <1>1, <1>4 DEF CompType
<1> HIDE DEF f
<1>6. Placed(f, i)
  BY <1>1, <1>2, <1>4, <1>5 DEF Placed, v
<1>7. Steady(f) /\ SameOwners(c, f) /\ Focus(f)
  BY <1>1, <1>4, <1>5, <1>6, OneWindow DEF v
<1> QED BY <1>5, <1>7 DEF f, Sound, w, v

\* Closing a window that has the focus leaves nobody with it.
LEMMA DestroyKeeps ==
  ASSUME NEW c, Sound(c), NEW i \in Live(c), c.drag_win = None
  PROVE  LET f == gui_destroy_window(c, i) IN
           /\ Sound(f) /\ Live(f) = Live(c) \ {i} /\ f.drag_win = None
           /\ \A j \in Live(f) : f.windows[j] = c.windows[j]
<1> DEFINE v == c.windows[i]
           w == [v EXCEPT !.active = FALSE]
           act == Unfocused(c, i)
           f == gui_destroy_window(c, i)
<1>1. /\ c \in CompType /\ i \in Windows /\ i # None /\ v \in WindowType
      /\ Steady(c) /\ Focus(c)
  BY LiveIndex DEF Steady, Sound
<1>2. w \in WindowType /\ w.active = FALSE
  BY <1>1 DEF WindowType
<1>3. act \in Live(c) \cup {None} /\ act # i /\ (c.active_window # i => act = c.active_window)
  BY <1>1 DEF Focus, Unfocused
<1>4. f = [c EXCEPT !.windows = [c.windows EXCEPT ![i] = w], !.window_count = c.window_count - 1,
                    !.active_window = act]
  BY <1>1 DEF gui_destroy_window, CompType, WindowType
<1>5. act \in Windows \cup {None} /\ c.window_count - 1 \in Int
  <2>1. c.window_count \in Int /\ c.active_window \in Windows \cup {None}
    BY <1>1 DEF CompType
  <2> QED BY <2>1 DEF Unfocused
<1> HIDE DEF w, f, act
<1>6. /\ f \in CompType /\ f.windows[i] = w /\ f.window_count = c.window_count - 1
      /\ f.drag_win = None /\ f.active_window = act
      /\ \A j \in Windows \ {i} : f.windows[j] = c.windows[j]
  <2> DEFINE n == c.window_count - 1
  <2> HIDE DEF n
  <2>1. n \in Int
    BY <1>5 DEF n
  <2>2. /\ f \in CompType /\ f.windows[i] = w /\ f.window_count = n
        /\ f.drag_win = None /\ f.active_window = act
        /\ \A j \in Windows \ {i} : f.windows[j] = c.windows[j]
    BY <1>1, <1>2, <1>4, <1>5, <2>1 DEF CompType, n
  <2> QED BY <2>2 DEF n
<1>7. Live(f) = Live(c) \ {i}
  BY <1>1, <1>2, <1>6 DEF Live
<1>8. f.window_count = Cardinality(Live(f))
  <2>1. c.window_count = Cardinality(Live(c))
    BY <1>1 DEF Steady
  <2>2. Cardinality(Live(c) \ {i}) = Cardinality(Live(c)) - 1
    BY LiveFinite, FS_RemoveElement
  <2> QED BY <1>6, <1>7, <2>1, <2>2
<1>9. ASSUME NEW j \in Live(f)
      PROVE  Placed(f, j) /\ f.windows[j] = c.windows[j] /\ (f.windows[j].focused <=> f.active_window = j)
  <2>1. j \in Windows /\ j # i /\ j # None /\ j \in Live(c)
    BY <1>1, <1>7, LiveIndex
  <2>2. f.windows[j] = c.windows[j]
    BY <1>6, <2>1
  <2>3. Placed(c, j) /\ (c.windows[j].focused <=> c.active_window = j)
    BY <1>1, <2>1 DEF Steady, Focus
  <2>4. Placed(f, j)
    BY <1>6, <2>2, <2>3 DEF Placed
  <2>5. c.active_window = j <=> act = j
    BY <1>3, <2>1 DEF act, Unfocused
  <2> QED BY <1>6, <2>2, <2>3, <2>4, <2>5
<1>10. Steady(f)
  BY <1>6, <1>8, <1>9 DEF Steady
<1>11. Focus(f)
  BY <1>3, <1>6, <1>7, <1>9 DEF Focus
<1> QED BY <1>6, <1>7, <1>9, <1>10, <1>11 DEF f, Sound

\* A new window is in a slot that was free and has the focus.
LEMMA CreateKeeps ==
  ASSUME NEW c, Sound(c), NEW app \in Apps, c.drag_win = None
  PROVE  LET made == gui_create_window(c, app)
             f    == made.comp
         IN /\ Sound(f) /\ f.drag_win = None
            /\ made.id = None => f = c
            /\ made.id # None => /\ made.id \in Windows \ Live(c) /\ Live(f) = Live(c) \cup {made.id}
                                 /\ f.windows[made.id].owner = app
                                 /\ \A j \in Live(c) : f.windows[j].owner = c.windows[j].owner
            /\ made.id \in Windows \cup {None}
<1> DEFINE free == Windows \ Live(c)
           made == gui_create_window(c, app)
<1>1. c \in CompType /\ Steady(c)
  BY DEF Sound, Steady
<1>2. CASE free = {}
  <2>1. made = [comp |-> c, id |-> None]
    BY <1>2 DEF gui_create_window
  <2> QED BY <2>1
<1>3. CASE free # {}
  <2> DEFINE id == Min(free)
             g  == Geometry[app]
             new == [active |-> TRUE, x |-> g.x, y |-> g.y, w |-> g.w, h |-> g.h, minimized |-> FALSE,
                     focused |-> FALSE, dragging |-> FALSE, owner |-> app, saved |-> Rect(0, 0, 0, 0),
                     dx |-> c.windows[id].dx, dy |-> c.windows[id].dy]
             d  == [c EXCEPT !.windows[id] = new, !.window_count = @ + 1]
             f  == gui_focus_window(d, id)
  <2>1. id \in free
    BY <1>3, FirstFound
  <2>2. made = [comp |-> f, id |-> id]
    BY <1>3 DEF gui_create_window
  <2> HIDE DEF id
  <2>3. id \in Windows /\ id \notin Live(c) /\ id # None /\ c.windows[id] \in WindowType
    BY <1>1, <2>1, Sizes DEF CompType
  <2>4. /\ g.x \in 0..(Width - 1) /\ g.y \in Nat /\ g.w \in 1..(Width - 1) /\ g.h \in Nat \ {0}
        /\ g.y + g.h <= Height - GUI_TASKBAR_H
    BY Room
  <2> HIDE DEF g
  <2>5. g.x \in Int /\ g.y \in Int /\ g.w \in Int /\ g.h \in Int /\ g.w # Width /\ g.w > 0 /\ g.h > 0
    BY <2>4, Sizes
  <2>6. Rect(0, 0, 0, 0) \in RectType
    BY DEF Rect, RectType
  <2>7. c.windows[id].dx \in Int /\ c.windows[id].dy \in Int
    BY <2>3 DEF WindowType
  <2>8. new \in WindowType
    BY <2>5, <2>6, <2>7 DEF WindowType
  <2>9. /\ new.active = TRUE /\ new.dragging = FALSE /\ new.owner = app /\ new.x = g.x /\ new.y = g.y
        /\ new.w = g.w /\ new.h = g.h
    OBVIOUS
  <2>10. Fits(new) /\ new.w # Width
    BY <2>4, <2>5, <2>9 DEF Fits
  <2> HIDE DEF new
  <2>11. d = [c EXCEPT !.windows = [c.windows EXCEPT ![id] = new], !.window_count = c.window_count + 1]
    BY <1>1, <2>3 DEF CompType
  <2>12. c.window_count = Cardinality(Live(c)) /\ c.window_count \in Int
    BY <1>1 DEF Steady, CompType
  <2> HIDE DEF d
  <2>13. /\ d \in CompType /\ d.windows[id] = new /\ d.window_count = c.window_count + 1
         /\ d.drag_win = None /\ \A j \in Windows \ {id} : d.windows[j] = c.windows[j]
    <3> DEFINE n == c.window_count + 1
    <3>1. n \in Int
      BY <2>12
    <3> HIDE DEF n
    <3>2. /\ d \in CompType /\ d.windows[id] = new /\ d.window_count = n
          /\ d.drag_win = None /\ \A j \in Windows \ {id} : d.windows[j] = c.windows[j]
      BY <1>1, <2>3, <2>8, <2>11, <3>1 DEF CompType, n
    <3> QED BY <3>2 DEF n
  <2>14. Live(d) = Live(c) \cup {id}
    BY <2>3, <2>9, <2>13 DEF Live
  <2>15. d.window_count = Cardinality(Live(d))
    <3>1. Cardinality(Live(c) \cup {id}) = Cardinality(Live(c)) + 1
      BY <2>3, LiveFinite, FS_AddElement
    <3> QED BY <3>1, <2>12, <2>13, <2>14
  <2>16. ASSUME NEW j \in Live(d) PROVE Placed(d, j)
    <3>1. CASE j = id
      BY <3>1, <2>3, <2>9, <2>10, <2>13 DEF Placed
    <3>2. CASE j # id
      <4>1. j \in Live(c) /\ j \in Windows /\ Placed(c, j)
        BY <3>2, <1>1, <2>14, LiveIndex DEF Steady
      <4>2. d.windows[j] = c.windows[j]
        BY <3>2, <4>1, <2>13
      <4> QED BY <4>1, <4>2, <2>13 DEF Placed
    <3> QED BY <3>1, <3>2
  <2>17. Steady(d)
    BY <2>13, <2>15, <2>16 DEF Steady
  <2>18. Sound(f) /\ SameOwners(d, f) /\ f.drag_win = None
    BY <2>13, <2>14, <2>17, FocusKeeps
  <2> HIDE DEF f
  <2>19. f.windows[id].owner = app
    BY <2>9, <2>13, <2>14, <2>18 DEF SameOwners
  <2>20. ASSUME NEW j \in Live(c) PROVE f.windows[j].owner = c.windows[j].owner
    <3>1. j \in Windows /\ j # id /\ j \in Live(d)
      BY <1>1, <2>3, <2>14, LiveIndex
    <3> QED BY <3>1, <2>13, <2>18 DEF SameOwners
  <2>21. Live(f) = Live(c) \cup {id}
    BY <2>14, <2>18 DEF SameOwners
  <2> QED BY <2>2, <2>3, <2>18, <2>19, <2>20, <2>21
<1> QED BY <1>2, <1>3

LEMMA ReleaseKeeps ==
  ASSUME NEW c, Sound(c)
  PROVE  Sound(Release(c)) /\ SameOwners(c, Release(c)) /\ Release(c).drag_win = None
<1> DEFINE f == Release(c)
           i == c.drag_win
           v == c.windows[i]
           w == [v EXCEPT !.dragging = FALSE]
<1>1. CASE i = None
  BY <1>1 DEF Release, SameOwners
<1>2. CASE i # None
  <2>1. i \in Live(c) /\ c \in CompType /\ Steady(c) /\ Focus(c)
    BY <1>2 DEF Sound, Steady
  <2>2. i \in Windows /\ v \in WindowType /\ v.active = TRUE
    BY <2>1, LiveIndex
  <2>3. /\ w \in WindowType /\ w.dragging = FALSE /\ w.focused = v.focused
        /\ w.x = v.x /\ w.y = v.y /\ w.w = v.w /\ w.h = v.h /\ w.saved = v.saved /\ w.owner = v.owner
        /\ w.active = v.active
    BY <2>2 DEF WindowType
  <2>4. f = [c EXCEPT !.windows = [c.windows EXCEPT ![i] = w], !.drag_win = None]
    BY <1>2, <2>1, <2>2 DEF Release, CompType, WindowType
  <2> HIDE DEF w, f
  <2>5. /\ f \in CompType /\ f.windows[i] = w /\ f.window_count = c.window_count
        /\ f.drag_win = None /\ f.active_window = c.active_window
        /\ \A j \in Windows \ {i} : f.windows[j] = c.windows[j]
    BY <2>1, <2>2, <2>3, <2>4 DEF CompType
  <2>6. Placed(c, i)
    BY <2>1 DEF Steady
  <2>7. Fits(v)
    BY <2>6 DEF Placed
  <2>8. Fits(w)
    BY <2>3, <2>7, FitsSame
  <2>9. Placed(f, i)
    BY <1>2, <2>3, <2>5, <2>6, <2>8 DEF Placed
  <2>10. Steady(f) /\ SameOwners(c, f) /\ Focus(f)
    BY <2>1, <2>2, <2>3, <2>5, <2>9, OneWindow
  <2> QED BY <2>5, <2>10 DEF f, Sound
<1> QED BY <1>1, <1>2

\* The mouse alone has no part in the windows.
LEMMA MouseKeeps ==
  ASSUME NEW c, Sound(c), NEW f \in CompType, f.windows = c.windows, f.drag_win = c.drag_win,
         f.active_window = c.active_window, f.window_count = c.window_count
  PROVE  Sound(f) /\ SameOwners(c, f)
<1>1. Live(f) = Live(c)
  BY DEF Live
<1>2. \A i : Placed(f, i) <=> Placed(c, i)
  BY DEF Placed
<1> QED BY <1>1, <1>2 DEF Sound, Steady, Focus, SameOwners

\* The title bar stays on the screen and the bottom above the taskbar.
LEMMA DragKeeps ==
  ASSUME NEW c, Sound(c)
  PROVE  LET f == Dragged(c) IN
           Sound(f) /\ SameOwners(c, f) /\ f.drag_win = c.drag_win /\ f.mouse = c.mouse
<1> DEFINE f == Dragged(c)
           i == c.drag_win
           v == c.windows[i]
           nx == Max({0, c.mouse.x - v.dx})
           ny == Lowest(Max({0, c.mouse.y - v.dy}), v.h)
           w == [v EXCEPT !.x = nx, !.y = ny]
<1>1. CASE i = None \/ ~v.dragging
  BY <1>1 DEF Dragged, SameOwners
<1>2. CASE i # None /\ v.dragging
  <2>1. i \in Live(c) /\ c \in CompType /\ Steady(c) /\ Focus(c)
    BY <1>2 DEF Sound, Steady
  <2>2. i \in Windows /\ v \in WindowType /\ v.active = TRUE /\ Placed(c, i)
    BY <2>1, LiveIndex DEF Steady
  <2>3. Fits(v) /\ v.dx >= 0
    BY <1>2, <2>2 DEF Placed
  <2>4. /\ c.mouse.x \in 0..(Width - 1) /\ c.mouse.y \in 0..(Height - 1)
        /\ v.dx \in Int /\ v.dy \in Int /\ v.h \in Int /\ v.y \in Int
    BY <2>1, <2>2 DEF CompType, WindowType
  <2>5. f = [c EXCEPT !.windows = [c.windows EXCEPT ![i] = w]]
    BY <1>2, <2>1, <2>2 DEF Dragged, CompType, WindowType
  <2>6. nx \in 0..(Width - 1)
    <3> DEFINE p == c.mouse.x - v.dx
    <3>1. p \in Int /\ p <= Width - 1
      BY <2>3, <2>4, Sizes
    <3> HIDE DEF p
    <3>2. Max({0, p}) = IF 0 >= p THEN 0 ELSE p
      BY <3>1, GreaterOf
    <3>3. nx = Max({0, p})
      BY DEF p
    <3> QED BY <3>1, <3>2, <3>3, Sizes
  <2>7. ny \in Int /\ ny >= 0 /\ ny + v.h <= Height - GUI_TASKBAR_H
    <3> DEFINE p == c.mouse.y - v.dy
               q == Max({0, p})
    <3>1. p \in Int
      BY <2>4, Sizes
    <3> HIDE DEF p
    <3>2. q = IF 0 >= p THEN 0 ELSE p
      BY <3>1, GreaterOf
    <3>3. q \in Int /\ q >= 0
      BY <3>1, <3>2
    <3>4. ny = Lowest(q, v.h)
      BY DEF p
    <3>5. v.y >= 0 /\ v.y + v.h <= Height - GUI_TASKBAR_H
      BY <2>3 DEF Fits
    <3> HIDE DEF q, v, ny
    <3>6. v.h <= Height - GUI_TASKBAR_H
      BY <2>4, <3>5, Sizes
    <3> QED BY <2>4, <3>3, <3>4, <3>6, Sizes DEF Lowest
  <2> HIDE DEF nx, ny
  <2>8. /\ w \in WindowType /\ w.dragging = v.dragging /\ w.focused = v.focused
        /\ w.minimized = v.minimized /\ w.dx = v.dx
        /\ w.x = nx /\ w.y = ny /\ w.w = v.w /\ w.h = v.h /\ w.saved = v.saved /\ w.owner = v.owner
        /\ w.active = v.active
    <3>1. nx \in Int /\ ny \in Int
      BY <2>6, <2>7, Sizes
    <3> QED BY <2>2, <3>1 DEF WindowType
  <2>9. Fits(w)
    BY <2>3, <2>6, <2>7, <2>8 DEF Fits
  <2> HIDE DEF w, f
  <2>10. /\ f \in CompType /\ f.windows[i] = w /\ f.window_count = c.window_count
         /\ f.drag_win = i /\ f.active_window = c.active_window /\ f.mouse = c.mouse
         /\ \A j \in Windows \ {i} : f.windows[j] = c.windows[j]
    BY <2>1, <2>2, <2>5, <2>8 DEF CompType
  <2>11. Placed(f, i)
    BY <2>2, <2>8, <2>9, <2>10 DEF Placed
  <2>12. c.active_window = i
    BY <1>2, <2>1 DEF Focus
  <2>13. Steady(f) /\ SameOwners(c, f) /\ Focus(f)
    BY <2>1, <2>2, <2>8, <2>10, <2>11, <2>12, OneWindow
  <2> QED BY <2>10, <2>13 DEF f, Sound
<1> QED BY <1>1, <1>2

\* What handle_mouse has done to comp before it looks at the button.
Moved(dx, dy) ==
  [comp EXCEPT !.mouse.x = Clamp(@ + 2 * dx, Width), !.mouse.y = Clamp(@ + 2 * dy, Height)]

Arrived(left, dx, dy) == [Dragged(Moved(dx, dy)) EXCEPT !.mouse.left = left]

LEMMA OwnersChain ==
  ASSUME NEW c, NEW d, NEW e, SameOwners(c, d), SameOwners(d, e)
  PROVE  SameOwners(c, e)
BY DEF SameOwners

LEMMA ArrivedKeeps ==
  ASSUME Sound(comp), NEW left \in BOOLEAN, NEW dx \in -1..1, NEW dy \in -1..1
  PROVE  LET c == Arrived(left, dx, dy) IN
           Sound(c) /\ SameOwners(comp, c) /\ c.drag_win = comp.drag_win /\ c.mouse.left = left
<1> DEFINE m == Moved(dx, dy)
           d == Dragged(m)
           c == Arrived(left, dx, dy)
           nx == Clamp(comp.mouse.x + 2 * dx, Width)
           ny == Clamp(comp.mouse.y + 2 * dy, Height)
<1>1. comp \in CompType
  BY DEF Sound, Steady
<1>2. comp.mouse.x \in Int /\ comp.mouse.y \in Int /\ comp.mouse.x + 2 * dx \in Int /\ comp.mouse.y + 2 * dy \in Int
  BY <1>1, Sizes DEF CompType
<1>3. nx \in 0..(Width - 1) /\ ny \in 0..(Height - 1)
  BY <1>2, Sizes, Clamped
<1>4. m = [comp EXCEPT !.mouse = [comp.mouse EXCEPT !.x = nx, !.y = ny]]
  BY <1>1 DEF Moved, CompType
<1> HIDE DEF nx, ny, m
<1>5. [comp.mouse EXCEPT !.x = nx, !.y = ny] \in [x : 0..(Width - 1), y : 0..(Height - 1), left : BOOLEAN]
  BY <1>1, <1>3 DEF CompType
<1>6. /\ m \in CompType /\ m.windows = comp.windows /\ m.drag_win = comp.drag_win
      /\ m.active_window = comp.active_window /\ m.window_count = comp.window_count
  BY <1>1, <1>4, <1>5 DEF CompType
<1>7. Sound(m) /\ SameOwners(comp, m)
  BY <1>6, MouseKeeps
<1>8. Sound(d) /\ SameOwners(m, d) /\ d.drag_win = m.drag_win
  BY <1>7, DragKeeps
<1>9. c = [d EXCEPT !.mouse.left = left]
  BY DEF Arrived, m
<1> HIDE DEF d, c
<1>10. d \in CompType
  BY <1>8 DEF Sound, Steady
<1>11. /\ c \in CompType /\ c.windows = d.windows /\ c.drag_win = d.drag_win
       /\ c.active_window = d.active_window /\ c.window_count = d.window_count /\ c.mouse.left = left
  BY <1>9, <1>10 DEF CompType
<1>12. Sound(c) /\ SameOwners(d, c)
  BY <1>8, <1>11, MouseKeeps
<1>13. SameOwners(comp, c)
  BY <1>7, <1>8, <1>12, OwnersChain
<1> QED BY <1>6, <1>8, <1>11, <1>12, <1>13 DEF c

-----------------------------------------------------------------------------
(***************************************************************************)
(* The invariant is inductive                                              *)
(***************************************************************************)

\* What a turn of the main loop has to establish.
After == Sound(comp') /\ (comp'.drag_win # None => comp'.mouse.left) /\ Remembered(comp', app_win')

LEMMA RememberedSame ==
  ASSUME NEW c, NEW f, NEW a, Remembered(c, a), SameOwners(c, f)
  PROVE  Remembered(f, a)
BY DEF Remembered, SameOwners

\* An application whose window was closed, or whose id is another's by now,
\* has no window when it opens one.
LEMMA AppCreateKeeps ==
  ASSUME NEW c, Sound(c), c.drag_win = None, Remembered(c, app_win), NEW app \in Apps,
         app_create(c, app)
  PROVE  After
<1> DEFINE made == gui_create_window(c, app)
<1>1. c \in CompType /\ Steady(c) /\ app_win[app] \in Windows \cup {None}
  BY DEF Sound, Steady, Remembered
<1>2. CASE Mine(c, app)
  <2>1. app_win[app] \in Live(c)
    BY <1>1, <1>2 DEF Mine, Live
  <2>2. comp' = gui_focus_window(c, app_win[app]) /\ app_win' = app_win
    BY <1>2 DEF app_create
  <2>3. Sound(comp') /\ SameOwners(c, comp') /\ comp'.drag_win = None
    BY <1>1, <2>1, <2>2, FocusKeeps
  <2>4. Remembered(comp', app_win')
    BY <2>2, <2>3, RememberedSame
  <2> QED BY <2>3, <2>4 DEF After
<1>3. CASE ~Mine(c, app)
  <2>1. comp' = made.comp /\ app_win' = [app_win EXCEPT ![app] = made.id]
    BY <1>3 DEF app_create
  <2>2. /\ Sound(comp') /\ comp'.drag_win = None
        /\ made.id = None => comp' = c
        /\ made.id # None => /\ made.id \in Windows \ Live(c) /\ Live(comp') = Live(c) \cup {made.id}
                             /\ comp'.windows[made.id].owner = app
                             /\ \A j \in Live(c) : comp'.windows[j].owner = c.windows[j].owner
        /\ made.id \in Windows \cup {None}
    BY <2>1, CreateKeeps
  <2> HIDE DEF made
  <2>3. ASSUME NEW j \in Live(c) PROVE c.windows[j].owner \in Apps \ {app} /\ app_win[c.windows[j].owner] = j
    <3>1. j \in Windows /\ j # None /\ c.windows[j].active = TRUE /\ c.windows[j].owner \in Apps
      BY <1>1, LiveIndex DEF WindowType
    <3>2. app_win[c.windows[j].owner] = j
      BY DEF Remembered
    <3> QED BY <1>3, <3>1, <3>2 DEF Mine
  <2>4. app_win \in [Apps -> Windows \cup {None}]
    BY DEF Remembered
  <2>5. /\ app_win' \in [Apps -> Windows \cup {None}] /\ app_win'[app] = made.id
        /\ \A b \in Apps \ {app} : app_win'[b] = app_win[b]
    BY <2>1, <2>2, <2>4
  <2>6. ASSUME NEW j \in Live(comp') PROVE app_win'[comp'.windows[j].owner] = j
    <3>1. CASE j \in Live(c)
      BY <3>1, <2>2, <2>3, <2>5
    <3>2. CASE j \notin Live(c)
      BY <3>2, <2>2, <2>5
    <3> QED BY <3>1, <3>2
  <2> QED BY <2>2, <2>5, <2>6 DEF After, Remembered
<1> QED BY <1>2, <1>3

LEMMA ClickKeeps ==
  ASSUME NEW c, Sound(c), c.drag_win = None, c.mouse.left, Remembered(c, app_win),
         NEW i \in Live(c), ~c.windows[i].minimized, In(c.mouse, Area(c.windows[i])), Click(c, i)
  PROVE  After
<1> DEFINE w == c.windows[i]
           title == c.mouse.y < w.y + GUI_TITLEBAR_H
           d == IF title THEN Grabbed(c, i) ELSE c
<1>1. \/ Becomes(gui_destroy_window(c, i))
      \/ Becomes(gui_minimize_window(c, i))
      \/ Becomes([c EXCEPT !.windows[i] = Maximized(w)])
      \/ Becomes(gui_focus_window(d, i))
  BY DEF Click
<1>2. c \in CompType /\ Steady(c) /\ i # None
  BY LiveIndex DEF Sound, Steady
<1> HIDE DEF w, d
<1>3. CASE Becomes(gui_destroy_window(c, i))
  <2>1. comp' = gui_destroy_window(c, i) /\ app_win' = app_win
    BY <1>3 DEF Becomes
  <2>2. /\ Sound(comp') /\ Live(comp') \subseteq Live(c) /\ comp'.drag_win = None
        /\ \A j \in Live(comp') : comp'.windows[j] = c.windows[j]
    BY <2>1, DestroyKeeps
  <2>3. Remembered(comp', app_win')
    BY <2>1, <2>2 DEF Remembered
  <2> QED BY <2>2, <2>3 DEF After
<1>4. CASE Becomes(gui_minimize_window(c, i))
  <2>1. comp' = gui_minimize_window(c, i) /\ app_win' = app_win
    BY <1>4 DEF Becomes
  <2>2. Sound(comp') /\ SameOwners(c, comp') /\ comp'.drag_win = None
    BY <2>1, MinimizeKeeps
  <2> QED BY <2>1, <2>2, RememberedSame DEF After
<1>5. CASE Becomes([c EXCEPT !.windows[i] = Maximized(w)])
  <2>1. comp' = [c EXCEPT !.windows[i] = Maximized(c.windows[i])] /\ app_win' = app_win
    BY <1>5 DEF Becomes, w
  <2>2. Sound(comp') /\ SameOwners(c, comp') /\ comp'.drag_win = None
    BY <2>1, MaximizeKeeps
  <2> QED BY <2>1, <2>2, RememberedSame DEF After
<1>6. CASE Becomes(gui_focus_window(d, i))
  <2>1. comp' = gui_focus_window(d, i) /\ app_win' = app_win
    BY <1>6 DEF Becomes
  <2>2. c.mouse.x >= c.windows[i].x
    <3>1. w \in WindowType /\ c.mouse.x \in 0..(Width - 1)
      BY <1>2, LiveIndex DEF w, CompType
    <3>2. w.x \in Int /\ w.w \in Int /\ c.mouse.x \in Int
      BY <3>1, Sizes DEF WindowType
    <3>3. In(c.mouse, Area(w))
      BY DEF w
    <3>4. Area(w).x = w.x /\ Area(w).w = w.w
      BY DEF Area, Rect
    <3>5. c.mouse.x \in w.x..(w.x + w.w - 1)
      BY <3>3, <3>4 DEF In
    <3> QED BY <3>2, <3>5 DEF w
  <2>3. Steady(d) /\ SameOwners(c, d) /\ d.mouse = c.mouse /\ d.drag_win \in {i, None}
    <3>1. CASE title
      <4>1. d = Grabbed(c, i)
        BY <3>1 DEF d
      <4> QED BY <4>1, <1>2, <2>2, GrabKeeps
    <3>2. CASE ~title
      <4>1. d = c
        BY <3>2 DEF d
      <4> QED BY <4>1, <1>2 DEF SameOwners
    <3> QED BY <3>1, <3>2
  <2>4. i \in Live(d)
    BY <2>3 DEF SameOwners
  <2>5. Sound(comp') /\ SameOwners(d, comp') /\ comp'.mouse = c.mouse
    BY <2>1, <2>3, <2>4, FocusKeeps
  <2>6. Remembered(comp', app_win')
    BY <2>1, <2>3, <2>5, OwnersChain, RememberedSame
  <2> QED BY <2>5, <2>6 DEF After
<1> QED BY <1>1, <1>3, <1>4, <1>5, <1>6

LEMMA PressKeeps ==
  ASSUME NEW c, Sound(c), c.drag_win = None, c.mouse.left, Remembered(c, app_win), Press(c)
  PROVE  After
<1> DEFINE hit   == {i \in Live(c) : ~c.windows[i].minimized /\ In(c.mouse, Area(c.windows[i]))}
           icons == {a \in Apps : In(c.mouse, Icon[a])}
<1>1. \/ app_create(c, About)
      \/ hit # {} /\ Click(c, Max(hit))
      \/ \E a \in icons : app_create(c, a)
      \/ Becomes(c)
  BY DEF Press
<1>2. CASE app_create(c, About)
  BY <1>2, Sizes, AppCreateKeeps
<1>3. CASE hit # {} /\ Click(c, Max(hit))
  <2>1. Max(hit) \in hit
    BY <1>3, TopmostFound DEF Live
  <2> QED BY <1>3, <2>1, ClickKeeps
<1>4. CASE \E a \in icons : app_create(c, a)
  BY <1>4, AppCreateKeeps
<1>5. CASE Becomes(c)
  BY <1>5 DEF Becomes, After
<1> QED BY <1>1, <1>2, <1>3, <1>4, <1>5

LEMMA StepDInv == DInv /\ [Next]_vars => DInv'
<1> SUFFICES ASSUME DInv, [Next]_vars PROVE DInv'
  OBVIOUS
<1>1. CASE UNCHANGED vars
  <2>1. comp' = comp /\ app_win' = app_win
    BY <1>1 DEF vars
  <2> QED BY <2>1 DEF DInv
<1>2. ASSUME NEW left \in BOOLEAN, NEW dx \in -1..1, NEW dy \in -1..1, handle_mouse(left, dx, dy)
      PROVE  After
  <2> DEFINE c == Arrived(left, dx, dy)
             was == comp.mouse.left
  <2>1. /\ Sound(c) /\ SameOwners(comp, c) /\ c.drag_win = comp.drag_win /\ c.mouse.left = left
    BY ArrivedKeeps DEF DInv
  <2>2. Remembered(c, app_win)
    BY <2>1, RememberedSame DEF DInv
  <2>3. was \in BOOLEAN /\ (comp.drag_win # None => was)
    BY DEF DInv, Sound, Steady, CompType
  <2>4. \/ left /\ ~was /\ Press(c)
        \/ left = was /\ Becomes(c)
        \/ ~left /\ was /\ Becomes(Release(c))
    BY <1>2 DEF handle_mouse, Arrived, Moved
  <2> HIDE DEF c
  <2>5. CASE left /\ ~was /\ Press(c)
    BY <2>1, <2>2, <2>3, <2>5, PressKeeps
  <2>6. CASE left = was /\ Becomes(c)
    BY <2>1, <2>2, <2>3, <2>6 DEF Becomes, After
  <2>7. CASE ~left /\ was /\ Becomes(Release(c))
    <3>1. Sound(Release(c)) /\ SameOwners(c, Release(c)) /\ Release(c).drag_win = None
      BY <2>1, ReleaseKeeps
    <3>2. Remembered(Release(c), app_win)
      BY <2>2, <3>1, RememberedSame
    <3> QED BY <2>7, <3>1, <3>2 DEF Becomes, After
  <2> QED BY <2>4, <2>5, <2>6, <2>7
<1>3. ASSUME After PROVE DInv'
  BY <1>3 DEF After, DInv
<1> QED BY <1>1, <1>2, <1>3 DEF Next

LEMMA InitDInv == Init => DInv
<1> SUFFICES ASSUME Init PROVE DInv
  OBVIOUS
<1> DEFINE m == [x |-> Width \div 2, y |-> Height \div 2, left |-> FALSE]
<1>1. Slot \in WindowType /\ Slot.active = FALSE
  BY Sizes DEF Slot, WindowType, RectType, Rect
<1>2. m \in [x : 0..(Width - 1), y : 0..(Height - 1), left : BOOLEAN]
  <2>1. \A n \in Nat \ {0} : n \div 2 \in 0..(n - 1)
    OBVIOUS
  <2> QED BY <2>1, Sizes
<1>3. comp = [windows |-> [i \in Windows |-> Slot], active_window |-> None, window_count |-> 0,
              drag_win |-> None, mouse |-> m]
  BY DEF Init
<1> HIDE DEF m
<1>4. /\ comp \in CompType /\ comp.windows = [i \in Windows |-> Slot] /\ comp.active_window = None
      /\ comp.window_count = 0 /\ comp.drag_win = None
  BY <1>1, <1>2, <1>3 DEF CompType
<1>5. Live(comp) = {}
  BY <1>1, <1>4 DEF Live
<1>6. Sound(comp)
  BY <1>4, <1>5, FS_EmptySet DEF Sound, Steady, Focus
<1>7. Remembered(comp, app_win)
  BY <1>5 DEF Remembered, Init
<1> QED BY <1>4, <1>6, <1>7 DEF DInv

LEMMA DesktopInvariance == Spec => []DInv
BY InitDInv, StepDInv, PTL DEF Spec

-----------------------------------------------------------------------------
(***************************************************************************)
(* What the window manager promises                                        *)
(***************************************************************************)

(***************************************************************************)
(* The cursor is on the screen, window_count is the number of windows, and *)
(* keys go to a live window, the only one with the focus: closing a window *)
(* or giving its slot out again never leaves active_window on a dead one.  *)
(***************************************************************************)
THEOREM FocusAlwaysSound == Spec => []FocusSound
<1>1. DInv => FocusSound
  <2> SUFFICES ASSUME DInv PROVE FocusSound
    OBVIOUS
  <2>1. comp \in CompType /\ Steady(comp) /\ Focus(comp)
    BY DEF DInv, Sound, Steady
  <2>2. TypeOK
    BY <2>1 DEF TypeOK, CompType, Steady
  <2>3. {i \in Live(comp) : comp.windows[i].focused} = {comp.active_window} \ {None}
    <3>1. \A i \in Live(comp) : i # None
      BY <2>1, LiveIndex
    <3> QED BY <2>1, <3>1 DEF Focus
  <2> QED BY <2>1, <2>2, <2>3 DEF FocusSound, Focus
<1> QED BY <1>1, DesktopInvariance, PTL

(***************************************************************************)
(* What is dragged is the live window in full view that has the focus, and *)
(* only while the button is down.                                          *)
(***************************************************************************)
THEOREM DragAlwaysSound == Spec => []DragSound
<1>1. DInv => DragSound
  <2> SUFFICES ASSUME DInv PROVE DragSound
    OBVIOUS
  <2>1. comp \in CompType /\ Steady(comp) /\ Focus(comp)
    BY DEF DInv, Sound, Steady
  <2>2. \A i \in Live(comp) : i # None /\ (comp.windows[i].dragging <=> comp.drag_win = i)
                              /\ (comp.windows[i].dragging => ~comp.windows[i].minimized)
    BY <2>1, LiveIndex DEF Steady, Placed
  <2>3. comp.drag_win \in Live(comp) \cup {None}
    BY <2>1 DEF Steady
  <2>4. comp.drag_win # None => comp.mouse.left /\ comp.active_window = comp.drag_win
    BY <2>1 DEF DInv, Focus
  <2>5. {i \in Live(comp) : comp.windows[i].dragging} = {comp.drag_win} \ {None}
    BY <2>2, <2>3
  <2> QED BY <2>2, <2>3, <2>4, <2>5 DEF DragSound
<1> QED BY <1>1, DesktopInvariance, PTL

(***************************************************************************)
(* However windows are dragged, maximized and restored, each begins on the *)
(* screen and ends above the taskbar.                                      *)
(***************************************************************************)
THEOREM TitleBarAlwaysReachable == Spec => []TitleBarReachable
<1>1. DInv => TitleBarReachable
  BY DEF DInv, Sound, Steady, Placed, Fits, TitleBarReachable
<1> QED BY <1>1, DesktopInvariance, PTL

(***************************************************************************)
(* An application has one window at most, the one it remembers, although   *)
(* it goes by an id that may have been given to another's window.          *)
(***************************************************************************)
THEOREM AppsKeepOneWindow == Spec => []OneWindowPerApp
<1>1. DInv => OneWindowPerApp
  BY DEF DInv, Remembered, OneWindowPerApp
<1> QED BY <1>1, DesktopInvariance, PTL
=============================================================================
