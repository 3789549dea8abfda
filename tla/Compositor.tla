----------------------------- MODULE Compositor -----------------------------
(***************************************************************************)
(* The window manager, src/src/kernel/compositor.c, and the functions of   *)
(* src/src/apps/ that open its windows.  One step is one turn of the main  *)
(* loop with whatever mouse_get_state reports: the report is arbitrary, so *)
(* motion that is reported twice, packets out of step and a copy torn by   *)
(* the interrupt are all among the inputs.                                 *)
(*                                                                         *)
(* comp is the structure of that name.  Distances are constants, so that a *)
(* screen of a few cells has every case of the real one.  Titles, colours, *)
(* callbacks (the owner stands for them) and drawing are left out; keys    *)
(* are in Keyboard.  gui_move_window and gui_resize_window have no caller. *)
(***************************************************************************)
EXTENDS Integers, FiniteSetsExt

CONSTANTS
  Width, Height, GUI_TASKBAR_H, GUI_TITLEBAR_H,
  BtnSize, BtnMargin, BtnGap,   \* 14, 12 and 6 in hit_test_button
  GUI_MAX_WINDOWS,
  Apps, Geometry,               \* the applications; where each opens its window
  Icon, About, StartButton,     \* icon of each; the one of the taskbar's button; the button
  MaxPresses                    \* bound: presses of the left button

ASSUME CompositorAssumption ==
  /\ {Width, Height, GUI_TITLEBAR_H, GUI_MAX_WINDOWS} \subseteq Nat \ {0}
  /\ GUI_TASKBAR_H \in Nat /\ About \in Apps
  /\ \A a \in Apps : LET g == Geometry[a] IN
       /\ g.x \in 0..(Width - 1) /\ g.y \in 0..(Height - GUI_TASKBAR_H - g.h)
       /\ g.w \in 1..(Width - 1) /\ g.h \in GUI_TITLEBAR_H..(Height - GUI_TASKBAR_H)

VARIABLES
  comp,      \* windows, active_window, window_count, the mouse and drag_win
  app_win,   \* application -> the window id it remembers (term_win, te_win, ...)
  presses    \* ghost: presses so far

vars == <<comp, app_win, presses>>

Windows == 0..(GUI_MAX_WINDOWS - 1)
None    == -1
Rect(x, y, w, h) == [x |-> x, y |-> y, w |-> w, h |-> h]
Area(w)  == Rect(w.x, w.y, w.w, w.h)
In(p, r) == p.x \in r.x..(r.x + r.w - 1) /\ p.y \in r.y..(r.y + r.h - 1)
Live(c)  == {i \in Windows : c.windows[i].active}

-----------------------------------------------------------------------------

gui_focus_window(c, id) ==
  [c EXCEPT !.windows = [i \in Windows |-> [@[i] EXCEPT !.focused = i = id]], !.active_window = id]

gui_create_window(c, app) ==
  LET free == Windows \ Live(c)
      id   == Min(free)
      g    == Geometry[app]
      new  == [active |-> TRUE, x |-> g.x, y |-> g.y, w |-> g.w, h |-> g.h, minimized |-> FALSE,
               focused |-> FALSE, dragging |-> FALSE, owner |-> app, saved |-> Rect(0, 0, 0, 0),
               dx |-> c.windows[id].dx, dy |-> c.windows[id].dy]
  IN IF free = {} THEN [comp |-> c, id |-> None]
     ELSE [comp |-> gui_focus_window([c EXCEPT !.windows[id] = new, !.window_count = @ + 1], id), id |-> id]

Unfocused_Never(c, id) == c.active_window

Unfocused(c, id) == IF c.active_window = id THEN None ELSE c.active_window

gui_destroy_window(c, id) ==
  [c EXCEPT !.windows[id].active = FALSE, !.window_count = @ - 1, !.active_window = Unfocused(c, id)]

gui_minimize_window(c, id) == [c EXCEPT !.windows[id].minimized = ~@]

\* w == fb.width is how the code tells a maximized window.
Maximized(w) ==
  IF w.w = Width
  THEN [w EXCEPT !.x = w.saved.x, !.y = w.saved.y, !.w = w.saved.w, !.h = w.saved.h]
  ELSE [w EXCEPT !.saved = Area(w), !.x = 0, !.y = 0, !.w = Width, !.h = Height - GUI_TASKBAR_H]

\* The k-th button of a title bar, counted from the right from 1.
Button(w, k) == Rect(w.x + w.w - BtnMargin - k * BtnSize - (k - 1) * BtnGap,
                     w.y + (GUI_TITLEBAR_H - BtnSize) \div 2, BtnSize, BtnSize)

-----------------------------------------------------------------------------

Mine_Never(c, app) == FALSE

\* An application trusts the id it remembers as long as a window has it.
Mine(c, app) == app_win[app] # None /\ c.windows[app_win[app]].active

app_create(c, app) ==
  LET made == gui_create_window(c, app)
  IN IF Mine(c, app)
     THEN comp' = gui_focus_window(c, app_win[app]) /\ UNCHANGED app_win
     ELSE comp' = made.comp /\ app_win' = [app_win EXCEPT ![app] = made.id]

Becomes(c) == comp' = c /\ UNCHANGED app_win

Grabbed(c, i) == [c EXCEPT !.windows[i].dragging = TRUE, !.drag_win = i,
                           !.windows[i].dx = c.mouse.x - c.windows[i].x,
                           !.windows[i].dy = c.mouse.y - c.windows[i].y]

\* What a press on window i does.
Click(c, i) ==
  LET w == c.windows[i]
  IN CASE In(c.mouse, Button(w, 1)) -> Becomes(gui_destroy_window(c, i))
       [] In(c.mouse, Button(w, 2)) -> Becomes(gui_minimize_window(c, i))
       [] In(c.mouse, Button(w, 3)) -> Becomes([c EXCEPT !.windows[i] = Maximized(w)])
       [] OTHER -> Becomes(gui_focus_window(IF c.mouse.y < w.y + GUI_TITLEBAR_H THEN Grabbed(c, i) ELSE c, i))

Press(c) ==
  LET hit   == {i \in Live(c) : ~c.windows[i].minimized /\ In(c.mouse, Area(c.windows[i]))}
      icons == {a \in Apps : In(c.mouse, Icon[a])}
  IN CASE In(c.mouse, StartButton) -> app_create(c, About)
       [] ~In(c.mouse, StartButton) /\ hit # {} -> Click(c, Max(hit))
       [] ~In(c.mouse, StartButton) /\ hit = {} /\ icons # {} -> \E a \in icons : app_create(c, a)
       [] OTHER -> Becomes(c)

Release_DragKept(c) == [c EXCEPT !.drag_win = None]

Release(c) == IF c.drag_win = None THEN c
              ELSE [c EXCEPT !.windows[c.drag_win].dragging = FALSE, !.drag_win = None]

Clamp_OneLate(v, bound) == Max({0, Min({v, bound})})

Clamp(v, bound) == Max({0, Min({v, bound - 1})})

Lowest_NotBound(y, h) == y

\* Above the taskbar, if the window is not taller than that.
Lowest(y, h) == IF y + h > Height - GUI_TASKBAR_H THEN Height - GUI_TASKBAR_H - h ELSE y

Dragged(c) ==
  LET w == c.windows[c.drag_win]
  IN IF c.drag_win = None \/ ~w.dragging THEN c
     ELSE [c EXCEPT !.windows[c.drag_win].x = Max({0, c.mouse.x - w.dx}),
                    !.windows[c.drag_win].y = Lowest(Max({0, c.mouse.y - w.dy}), w.h)]

handle_mouse(left, dx, dy) ==
  LET moved == [comp EXCEPT !.mouse.x = Clamp(@ + 2 * dx, Width), !.mouse.y = Clamp(@ + 2 * dy, Height)]
      was   == comp.mouse.left
      c     == [Dragged(moved) EXCEPT !.mouse.left = left]
  IN \/ left /\ ~was /\ presses < MaxPresses /\ Press(c) /\ presses' = presses + 1
     \/ left = was /\ Becomes(c) /\ UNCHANGED presses
     \/ ~left /\ was /\ Becomes(Release(c)) /\ UNCHANGED presses

Slot == [active |-> FALSE, x |-> 0, y |-> 0, w |-> 0, h |-> 0, minimized |-> FALSE, focused |-> FALSE,
         dragging |-> FALSE, owner |-> About, saved |-> Rect(0, 0, 0, 0), dx |-> 0, dy |-> 0]

\* compositor_init
Init ==
  /\ comp = [windows |-> [i \in Windows |-> Slot], active_window |-> None, window_count |-> 0, drag_win |-> None,
             mouse |-> [x |-> Width \div 2, y |-> Height \div 2, left |-> FALSE]]
  /\ app_win = [a \in Apps |-> None]
  /\ presses = 0

Next == \E left \in BOOLEAN, dx, dy \in -1..1 : handle_mouse(left, dx, dy)

Spec == Init /\ [][Next]_vars

-----------------------------------------------------------------------------

\* The cursor is on the screen and the fields name windows.
TypeOK ==
  /\ comp.mouse.x \in 0..(Width - 1) /\ comp.mouse.y \in 0..(Height - 1)
  /\ comp.active_window \in Windows \cup {None} /\ comp.drag_win \in Windows \cup {None}
  /\ comp.window_count = Cardinality(Live(comp))

\* The keys go to a live window, and it is the only one drawn as focused.
FocusSound ==
  /\ TypeOK
  /\ comp.active_window \in Live(comp) \cup {None}
  /\ {i \in Live(comp) : comp.windows[i].focused} = {comp.active_window} \ {None}

\* What is dragged is a live window in full view, the one that has the focus,
\* and only while the button is down; no other window believes it is dragged.
DragSound ==
  /\ {i \in Live(comp) : comp.windows[i].dragging} = {comp.drag_win} \ {None}
  /\ comp.drag_win # None =>
       comp.mouse.left /\ comp.active_window = comp.drag_win /\ ~comp.windows[comp.drag_win].minimized

\* However it was dragged, maximized and restored, the title bar of a window
\* begins on the screen and its bottom is above the taskbar.
TitleBarReachable ==
  \A i \in Live(comp) : LET w == comp.windows[i] IN
    /\ w.x \in 0..(Width - 1) /\ w.y >= 0
    /\ w.y + w.h <= Height - GUI_TASKBAR_H /\ w.w > 0 /\ w.h > 0

\* An application has one window at most, and it is the one it remembers,
\* although the ids of closed windows are given out again.
OneWindowPerApp == \A i \in Live(comp) : app_win[comp.windows[i].owner] = i
=============================================================================
