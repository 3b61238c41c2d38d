------------------------------ MODULE TailList ------------------------------
(***************************************************************************)
(* The list of the terminal interface: a cursor and a viewport over the    *)
(* items lo .. hi - 1, the last of which it follows until the user moves.  *)
(*                                                                         *)
(* A list is a record; each operator returns what a handler leaves of it.  *)
(* A list is changed at two moments that other things come between: when   *)
(* an event reaches it, and when it is drawn.  It is drawn with the height *)
(* its place had in the frame before, and clicked on by the rows of the    *)
(* last frame it was in.                                                   *)
(***************************************************************************)
EXTENDS Integers

Larger(m, n) == IF m > n THEN m ELSE n
Smaller(m, n) == IF m < n THEN m ELSE n
Clamp(n, low, high) == Larger(low, Smaller(n, high))

None == -1

\* ListOption's cursor starts where its owner says; the first frame is laid
\* out before the list's box is known.
NewList(sel, follow) ==
  [lo |-> 0, hi |-> 0,      \* ListData: the items retained
   sel |-> sel,             \* selected, or None
   follow |-> follow,       \* follow_tail
   top |-> 0,               \* first_visible_
   height |-> 1,            \* VisibleHeight
   rows |-> {}]             \* box_indexes_: the items drawn last

NoItems(l) == l.lo >= l.hi
Holds(l, i) == l.lo <= i /\ i < l.hi

ExtendedKeeping(l, n, limit) == [l EXCEPT !.hi = @ + n]   \* mutated: nothing is dropped

\* ListData::push_back of n items: the oldest ones go when there are too many.
Extended(l, n, limit) == [l EXCEPT !.hi = @ + n, !.lo = Larger(@, l.hi + n - limit)]

-----------------------------------------------------------------------------
(* Drawing *)

\* NormalizeSelection: an item that is gone is not selected, and a selected
\* item is what the viewport follows.
Normalized(l) ==
  LET sel == IF Holds(l, l.sel) THEN l.sel ELSE None
  IN [l EXCEPT !.sel = sel, !.follow = @ /\ sel = None]

LastTop(l) == Larger(l.lo, l.hi - l.height)

TopStale(l) ==   \* mutated: the viewport is not clamped to the items retained
  IF l.follow THEN LastTop(l) ELSE l.top

\* UpdateViewport
Top(l) ==
  LET scrolled == IF l.sel = None THEN l.top
                  ELSE Clamp(l.top, l.sel - l.height + 1, l.sel)
  IN CASE NoItems(l) -> l.lo
       [] l.follow /\ ~NoItems(l) -> LastTop(l)
       [] ~l.follow /\ ~NoItems(l) -> Clamp(scrolled, l.lo, LastTop(l))

\* OnRender, in a place that is h rows high from then on.
Drawn(l, h) ==
  LET n == Normalized(l)
      top == Top(n)
  IN [n EXCEPT !.top = top, !.height = h,
               !.rows = top .. Smaller(n.hi, top + n.height) - 1]

-----------------------------------------------------------------------------
(* Events *)

Keys == {"up", "down", "pageup", "pagedown", "home", "end", "return"}

PageStep(l) == Larger(1, l.height - 1)

Select(l, i) == [l EXCEPT !.sel = i, !.follow = FALSE]
FollowTail(l) == [l EXCEPT !.sel = None, !.follow = TRUE]

\* SelectFromTailOrViewport: where a cursor that is nowhere moves up from.
LastSeen(l) ==
  IF l.follow THEN l.hi - 1
  ELSE IF l.sel = None THEN Larger(l.lo, Smaller(l.hi, l.top + l.height) - 1)
  ELSE l.sel

Upwards(l, from, n) == Select(l, Larger(l.lo, from - n))

DownwardsPast(l, n) == Select(l, l.sel + n)   \* mutated: there is no end to it

\* Past the last item, the list follows the tail again.
Downwards(l, n) ==
  IF l.sel + n >= l.hi THEN FollowTail(l) ELSE Select(l, l.sel + n)

\* Down and Page Down are not handled while the tail is followed.
Moved(l, key) ==
  CASE key = "up" -> IF l.sel = None THEN Select(l, l.hi - 1) ELSE Upwards(l, l.sel, 1)
    [] key = "pageup" -> Upwards(l, LastSeen(l), PageStep(l))
    [] key = "down" -> IF l.sel = None THEN Select(l, l.lo) ELSE Downwards(l, 1)
    [] key = "pagedown" -> IF l.sel = None THEN Select(l, l.top) ELSE Downwards(l, PageStep(l))
    [] key = "home" -> Select(l, l.lo)
    [] key = "end" -> FollowTail(l)
    [] key = "return" -> l

\* OnEvent, for a key that reaches the list.
Pressed(l, key) ==
  IF NoItems(l) \/ (key \in {"down", "pagedown"} /\ l.follow) THEN l
  ELSE Normalized(Moved(l, key))

\* on_enter and on_open_selection: Return on an item, if nothing else changed.
Opens(l) == ~NoItems(l) /\ Normalized(l) = l /\ l.sel # None

\* OnMouseWheel: unlike the keys, it does go down while the tail is followed.
Wheeled(l, key) ==
  IF NoItems(l) THEN l
  ELSE IF key = "up" THEN Normalized(Upwards(l, LastSeen(l), 1))
  ELSE Normalized(IF l.sel = None THEN Select(l, l.top) ELSE Downwards(l, 1))

\* OnMouseEvent: row i of the last frame, whatever became of its item since.
Clicked(l, i) == Select(l, i)
=============================================================================
