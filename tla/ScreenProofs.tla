---------------------------- MODULE ScreenProofs ----------------------------
(***************************************************************************)
(* Proofs about the screen: the log pane and the list it is made of, for   *)
(* any limit, any heights of the terminal and any number of entries, and   *)
(* the tabs, for any number of threads, messages and inputs.               *)
(***************************************************************************)
EXTENDS LogPane, Tui, Induction

\* A list of the pane: its items in order, and not too many.
Sound(l) ==
  /\ l \in ListOf(MaxEntries)
  /\ l.lo <= l.hi /\ l.hi - l.lo <= LogLimit

-----------------------------------------------------------------------------
(* The operators of TailList *)

LEMMA Numbers ==
  LogLimit \in Nat \ {0} /\ MaxEntries \in Nat /\ LogHeights \subseteq Nat \ {0}
  BY LogPaneAssumption

LEMMA Fields ==
  ASSUME NEW l \in ListOf(MaxEntries)
  PROVE  /\ l.lo \in 0 .. MaxEntries /\ l.hi \in 0 .. MaxEntries
         /\ l.sel \in None .. MaxEntries /\ l.follow \in BOOLEAN
         /\ l.top \in 0 .. MaxEntries
         /\ l.height \in {1} \cup LogHeights /\ l.height \in Nat \ {0}
         /\ l.rows \in SUBSET (0 .. MaxEntries)
<1>1. l.height \in {1} \cup LogHeights
  BY DEF ListOf
<1>2. l.height \in Nat \ {0}
  <2>1. CASE l.height = 1  BY <2>1
  <2>2. CASE l.height \in LogHeights  BY <2>2, Numbers
  <2>. QED  BY <1>1, <2>1, <2>2
<1>3. /\ l.lo \in 0 .. MaxEntries /\ l.hi \in 0 .. MaxEntries
      /\ l.sel \in None .. MaxEntries /\ l.follow \in BOOLEAN
      /\ l.top \in 0 .. MaxEntries
      /\ l.rows \in SUBSET (0 .. MaxEntries)
  BY DEF ListOf
<1>. QED
  BY <1>1, <1>2, <1>3

\* Entries are added, and the oldest dropped.
LEMMA ExtendedSound ==
  ASSUME NEW l, Sound(l), NEW n \in Nat, l.hi + n <= MaxEntries,
         NEW e, e = Extended(l, n, LogLimit)
  PROVE  /\ Sound(e) /\ e.sel = l.sel /\ e.follow = l.follow /\ e.top = l.top
         /\ e.lo >= l.lo
<1> DEFINE lo == Larger(l.lo, l.hi + n - LogLimit)
           hi == l.hi + n
<1>1. l.lo \in 0 .. MaxEntries /\ l.hi \in 0 .. MaxEntries
  BY Fields DEF Sound
<1>2. /\ lo \in 0 .. MaxEntries /\ hi \in 0 .. MaxEntries
      /\ lo <= hi /\ hi - lo <= LogLimit /\ lo >= l.lo
  BY <1>1, Numbers DEF Sound, Larger
<1>3. e = [l EXCEPT !.hi = hi, !.lo = lo]
  BY DEF Extended
<1> HIDE DEF lo, hi
<1>4. l \in ListOf(MaxEntries)
  BY DEF Sound
<1>5. /\ e \in ListOf(MaxEntries) /\ e.lo = lo /\ e.hi = hi
      /\ e.sel = l.sel /\ e.follow = l.follow /\ e.top = l.top
  BY <1>2, <1>3, <1>4 DEF ListOf
<1>. QED
  BY <1>2, <1>5 DEF Sound

LEMMA NormalizedSound ==
  ASSUME NEW l, Sound(l), NEW n, n = Normalized(l)
  PROVE  /\ Sound(n) /\ n.lo = l.lo /\ n.hi = l.hi /\ n.top = l.top /\ n.height = l.height
         /\ n.rows = l.rows
         /\ n.sel = (IF Holds(l, l.sel) THEN l.sel ELSE None)
         /\ n.follow = (l.follow /\ n.sel = None)
         /\ n.sel = None \/ Holds(n, n.sel)
<1> DEFINE sel == IF Holds(l, l.sel) THEN l.sel ELSE None
           follow == l.follow /\ sel = None
<1>1. l.sel \in None .. MaxEntries /\ None \in None .. MaxEntries /\ l.follow \in BOOLEAN
  BY Fields, Numbers DEF Sound, None
<1>2. sel \in None .. MaxEntries
  BY <1>1
<1>3. n = [l EXCEPT !.sel = sel, !.follow = follow]
  BY DEF Normalized
<1>4. follow \in BOOLEAN
  OBVIOUS
<1>5. sel = None \/ Holds(l, sel)
  OBVIOUS
<1>6. follow = (l.follow /\ sel = None)
  OBVIOUS
<1>7. sel = IF Holds(l, l.sel) THEN l.sel ELSE None
  OBVIOUS
<1> HIDE DEF sel, follow
<1>. l \in ListOf(MaxEntries)
  BY DEF Sound
<1>8. /\ n \in ListOf(MaxEntries) /\ n.sel = sel /\ n.follow = follow
      /\ n.lo = l.lo /\ n.hi = l.hi /\ n.top = l.top /\ n.height = l.height
      /\ n.rows = l.rows
  BY <1>2, <1>3, <1>4 DEF ListOf
<1>9. Sound(n)
  BY <1>8 DEF Sound
<1>10. n.sel = None \/ Holds(n, n.sel)
  BY <1>5, <1>8 DEF Holds
<1>. QED
  BY <1>6, <1>7, <1>8, <1>9, <1>10

\* The first entry shown is one that is retained, if any is, and the entry
\* that the cursor is on, or the last one if it is followed, is not far below.
LEMMA TopFits ==
  ASSUME NEW l, Sound(l),
         l.sel = None \/ Holds(l, l.sel), l.follow => l.sel = None
  PROVE  /\ Top(l) \in l.lo .. l.hi
         /\ l.sel # None => Top(l) <= l.sel /\ l.sel < Top(l) + l.height
         /\ l.lo < l.hi => Top(l) < l.hi
         /\ l.follow /\ l.lo < l.hi => l.hi - 1 < Top(l) + l.height
<1>1. /\ l.lo \in Nat /\ l.hi \in Nat /\ l.top \in Nat /\ l.height \in Nat \ {0}
      /\ l.sel \in Int /\ l.follow \in BOOLEAN /\ l.lo <= l.hi
  BY Fields DEF Sound, None
<1>2. CASE l.lo >= l.hi
  BY <1>1, <1>2 DEF Top, NoItems, Holds
<1>3. CASE l.lo < l.hi
  <2>1. /\ LastTop(l) \in l.lo .. l.hi - 1
        /\ l.hi - 1 < LastTop(l) + l.height
    BY <1>1, <1>3 DEF LastTop, Larger
  <2>2. CASE l.follow
    BY <1>1, <1>3, <2>1, <2>2 DEF Top, NoItems
  <2>3. CASE ~l.follow
    <3> DEFINE scrolled == IF l.sel = None THEN l.top
                           ELSE Clamp(l.top, l.sel - l.height + 1, l.sel)
    <3>1. Top(l) = Clamp(scrolled, l.lo, LastTop(l))
      BY <1>1, <1>3, <2>3 DEF Top, NoItems
    <3>2. scrolled \in Int
      BY <1>1 DEF Clamp, Larger, Smaller
    <3>3. l.sel # None => scrolled <= l.sel /\ l.sel < scrolled + l.height
      BY <1>1 DEF Clamp, Larger, Smaller
    <3>4. l.sel # None => l.lo <= l.sel /\ l.sel < l.hi
      BY DEF Holds
    <3>5. LastTop(l) = l.lo \/ LastTop(l) = l.hi - l.height
      BY <1>1 DEF LastTop, Larger
    <3> HIDE DEF scrolled
    <3>. QED
      BY <1>1, <1>3, <2>1, <2>3, <3>1, <3>2, <3>3, <3>4, <3>5 DEF Clamp, Larger, Smaller
  <2>. QED  BY <1>1, <2>2, <2>3
<1>. QED  BY <1>1, <1>2, <1>3

\* What a frame that draws the list leaves of it.
LEMMA DrawnShows ==
  ASSUME NEW l, Sound(l), NEW h \in LogHeights, NEW d, d = Drawn(l, h)
  PROVE  /\ Sound(d)
         /\ d.lo = l.lo /\ d.hi = l.hi /\ d.top <= d.hi /\ (d.lo < d.hi => d.top < d.hi)
         /\ d.sel = Normalized(l).sel /\ d.follow = Normalized(l).follow
         /\ d.rows \subseteq d.lo .. d.hi - 1
         /\ d.sel # None => d.sel \in d.rows /\ ~d.follow
         /\ d.lo < d.hi /\ d.follow => d.hi - 1 \in d.rows
<1>1. PICK n : n = Normalized(l)
  OBVIOUS
<1>2. /\ Sound(n) /\ n.lo = l.lo /\ n.hi = l.hi
      /\ n.sel = None \/ Holds(n, n.sel)
      /\ n.follow => n.sel = None
  BY <1>1, NormalizedSound
<1>3. /\ n.lo \in 0 .. MaxEntries /\ n.hi \in 0 .. MaxEntries
      /\ n.sel \in None .. MaxEntries /\ n.follow \in BOOLEAN /\ n.height \in Nat \ {0}
  BY <1>2, Fields DEF Sound
<1>4. /\ Top(n) \in n.lo .. n.hi
      /\ n.sel # None => Top(n) <= n.sel /\ n.sel < Top(n) + n.height
      /\ n.lo < n.hi => Top(n) < n.hi
      /\ n.follow /\ n.lo < n.hi => n.hi - 1 < Top(n) + n.height
  BY <1>2, TopFits
<1> DEFINE rows == Top(n) .. Smaller(n.hi, Top(n) + n.height) - 1
<1>5. d = [n EXCEPT !.top = Top(n), !.height = h, !.rows = rows]
  BY <1>1 DEF Drawn
<1>6. rows \subseteq n.lo .. n.hi - 1 /\ rows \in SUBSET (0 .. MaxEntries)
  BY <1>3, <1>4, Numbers DEF Smaller
<1>7. n.sel # None => n.sel \in rows
  BY <1>2, <1>3, <1>4 DEF Holds, Smaller, None
<1>8. n.lo < n.hi /\ n.follow => n.hi - 1 \in rows
  BY <1>3, <1>4 DEF Smaller
<1> HIDE DEF rows
<1> DEFINE top == Top(n)
<1>9. top <= n.hi /\ (n.lo < n.hi => top < n.hi)
  BY <1>3, <1>4
<1>10. top \in 0 .. MaxEntries /\ h \in {1} \cup LogHeights /\ n \in ListOf(MaxEntries)
  <2>1. top \in 0 .. MaxEntries
    BY <1>3, <1>4, Numbers
  <2>2. h \in {1} \cup LogHeights
    OBVIOUS
  <2>. QED  BY <1>2, <2>1, <2>2 DEF Sound
<1>11. d = [n EXCEPT !.top = top, !.height = h, !.rows = rows]
  BY <1>5
<1> HIDE DEF top
<1>12. /\ d \in ListOf(MaxEntries) /\ d.rows = rows
       /\ d.lo = n.lo /\ d.hi = n.hi /\ d.sel = n.sel /\ d.follow = n.follow
       /\ d.top = top
  BY <1>6, <1>10, <1>11 DEF ListOf
<1>. QED
  BY <1>1, <1>2, <1>6, <1>7, <1>8, <1>9, <1>12 DEF Sound

-----------------------------------------------------------------------------
(* Events *)

\* Where a cursor that moves would start from.
Start(l) == IF l.sel = None THEN l.top ELSE l.sel

\* What an event leaves of a list: its items and viewport, and a cursor that is
\* lost only if it was, or started from an item that was trimmed.
Handled(l, e) ==
  /\ Sound(e) /\ e.lo = l.lo /\ e.hi = l.hi /\ e.top = l.top /\ e.rows = l.rows
  /\ e.sel < e.hi /\ (e.follow => e.sel = None)
  /\ Lost(e) => Lost(l) \/ Start(l) < l.lo

\* A cursor or viewport that is nowhere below the items.
Above(l) == l.sel < l.hi /\ l.top < l.hi

\* List c is l with the cursor elsewhere.
SameItems(l, c) == Sound(c) /\ c.lo = l.lo /\ c.hi = l.hi /\ c.top = l.top /\ c.rows = l.rows

LEMMA CursorMoved ==
  ASSUME NEW l, Sound(l), NEW sel \in None .. l.hi - 1, NEW follow \in BOOLEAN
  PROVE  LET c == [l EXCEPT !.sel = sel, !.follow = follow]
         IN SameItems(l, c) /\ c.sel = sel /\ c.follow = follow
<1>1. l \in ListOf(MaxEntries)
  BY DEF Sound
<1>2. l.lo \in 0 .. MaxEntries /\ l.hi \in 0 .. MaxEntries
  BY <1>1, Fields
<1>3. sel \in None .. MaxEntries
  BY <1>2, Numbers DEF None
<1>4. PICK c : c = [l EXCEPT !.sel = sel, !.follow = follow]
  OBVIOUS
<1>5. /\ c \in ListOf(MaxEntries) /\ c.sel = sel /\ c.follow = follow
      /\ c.lo = l.lo /\ c.hi = l.hi /\ c.top = l.top /\ c.rows = l.rows
  BY <1>1, <1>3, <1>4 DEF ListOf
<1>6. SameItems(l, c) /\ c.sel = sel /\ c.follow = follow
  BY <1>5 DEF Sound, SameItems
<1>. QED
  BY <1>4, <1>6

\* A cursor that is put on an item, or on none to follow the tail, and checked.
LEMMA CheckedCursor ==
  ASSUME NEW l, Sound(l), ~NoItems(l), NEW c, SameItems(l, c),
         c.sel \in None .. l.hi - 1, c.follow \in BOOLEAN,
         c.follow \/ l.lo <= c.sel \/ Start(l) < l.lo \/ Lost(l),
         c.follow => c.sel = None
  PROVE  Handled(l, Normalized(c))
<1>1. PICK e : e = Normalized(c)
  OBVIOUS
<1>2. /\ Sound(c) /\ c.lo = l.lo /\ c.hi = l.hi /\ c.top = l.top /\ c.rows = l.rows
  BY DEF SameItems
<1>3. /\ Sound(e) /\ e.lo = c.lo /\ e.hi = c.hi /\ e.top = c.top /\ e.rows = c.rows
      /\ e.sel = (IF Holds(c, c.sel) THEN c.sel ELSE None)
      /\ e.follow = (c.follow /\ e.sel = None)
  BY <1>1, <1>2, NormalizedSound
<1>4. l.lo \in Nat /\ l.hi \in Nat /\ l.lo < l.hi
  BY Fields DEF Sound, NoItems
<1>5. e.sel < e.hi
  BY <1>2, <1>3, <1>4 DEF Holds, None
<1>6. ASSUME Lost(e)  PROVE Lost(l) \/ Start(l) < l.lo
  <2>1. e.sel = None /\ ~e.follow
    BY <1>6 DEF Lost
  <2>2. ~c.follow
    BY <1>3, <2>1
  <2>3. CASE l.lo <= c.sel
    <3>1. Holds(c, c.sel)
      BY <1>2, <1>4, <2>3 DEF Holds, None
    <3>2. e.sel = c.sel
      BY <1>3, <3>1
    <3>. QED  BY <1>4, <2>1, <2>3, <3>2 DEF None
  <2>. QED  BY <2>2, <2>3
<1>. QED
  BY <1>1, <1>2, <1>3, <1>5, <1>6 DEF Handled

LEMMA SelectHandled ==
  ASSUME NEW l, Sound(l), ~NoItems(l), NEW i \in Int, i < l.hi, i >= 0,
         l.lo <= i \/ Start(l) < l.lo \/ Lost(l)
  PROVE  Handled(l, Normalized(Select(l, i)))
<1>1. i \in None .. l.hi - 1
  BY Fields DEF None, Sound
<1>2. PICK c : c = Select(l, i)
  OBVIOUS
<1>3. SameItems(l, c) /\ c.sel = i /\ c.follow = FALSE
  BY <1>1, <1>2, CursorMoved DEF Select
<1>4. Handled(l, Normalized(c))
  BY <1>1, <1>3, CheckedCursor
<1>. QED
  BY <1>2, <1>4

LEMMA FollowHandled ==
  ASSUME NEW l, Sound(l), ~NoItems(l)
  PROVE  Handled(l, Normalized(FollowTail(l)))
<1>1. None \in None .. l.hi - 1
  BY Fields DEF None, Sound
<1>2. PICK c : c = FollowTail(l)
  OBVIOUS
<1>3. SameItems(l, c) /\ c.sel = None /\ c.follow = TRUE
  BY <1>1, <1>2, CursorMoved DEF FollowTail
<1>4. Handled(l, Normalized(c))
  BY <1>1, <1>3, CheckedCursor
<1>. QED
  BY <1>2, <1>4

LEMMA UpwardsHandled ==
  ASSUME NEW l, Sound(l), ~NoItems(l), Above(l), NEW from \in Int, from < l.hi, NEW n \in Nat
  PROVE  Handled(l, Normalized(Upwards(l, from, n)))
<1>1. l.lo \in Nat /\ l.hi \in Nat /\ l.lo < l.hi
  BY Fields DEF Sound, NoItems
<1> DEFINE i == Larger(l.lo, from - n)
<1>2. i \in Int /\ i < l.hi /\ i >= 0 /\ l.lo <= i
  BY <1>1 DEF Larger
<1> HIDE DEF i
<1>3. Handled(l, Normalized(Select(l, i)))
  BY <1>2, SelectHandled
<1>. QED
  BY <1>3 DEF Upwards, i

LEMMA DownwardsHandled ==
  ASSUME NEW l, Sound(l), ~NoItems(l), Above(l), l.sel # None, NEW n \in Nat
  PROVE  Handled(l, Normalized(Downwards(l, n)))
<1>1. l.lo \in Nat /\ l.hi \in Nat /\ l.sel \in Nat
  BY Fields DEF Sound, None
<1>2. CASE l.sel + n >= l.hi
  BY <1>2, FollowHandled DEF Downwards
<1>3. CASE ~(l.sel + n >= l.hi)
  <2>1. l.lo <= l.sel + n \/ Start(l) < l.lo
    BY <1>1 DEF Start
  <2>2. Handled(l, Normalized(Select(l, l.sel + n)))
    BY <1>1, <1>3, <2>1, SelectHandled
  <2>. QED  BY <1>3, <2>2 DEF Downwards
<1>. QED
  BY <1>2, <1>3

LEMMA LastSeenFits ==
  ASSUME NEW l, Sound(l), ~NoItems(l), Above(l)
  PROVE  LastSeen(l) \in Int /\ LastSeen(l) < l.hi
<1>1. /\ l.lo \in Nat /\ l.hi \in Nat /\ l.sel \in Int /\ l.top \in Nat /\ l.height \in Nat
      /\ l.lo < l.hi /\ l.sel < l.hi
  BY Fields DEF Sound, NoItems, Above, None
<1>. QED
  BY <1>1 DEF LastSeen, Larger, Smaller

LEMMA PressedHandled ==
  ASSUME NEW l, Sound(l), ~NoItems(l), Above(l), l.follow => l.sel = None, NEW key \in Keys,
         NEW e, e = Pressed(l, key)
  PROVE  Handled(l, e)
<1>1. /\ l.lo \in Nat /\ l.hi \in Nat /\ l.lo < l.hi /\ l.sel \in Int /\ l.sel < l.hi
      /\ l.top \in Nat /\ l.top < l.hi /\ l.height \in Nat /\ l.follow \in BOOLEAN
      /\ l.sel # None => l.sel \in Nat
  BY Fields DEF Sound, NoItems, Above, None
<1>2. PageStep(l) \in Nat
  BY <1>1 DEF PageStep, Larger
<1>3. CASE key \in {"down", "pagedown"} /\ l.follow
  <2>1. e = l
    BY <1>3 DEF Pressed
  <2>. QED  BY <1>1, <2>1 DEF Handled
<1>4. CASE ~(key \in {"down", "pagedown"} /\ l.follow)
  <2>1. e = Normalized(Moved(l, key))
    BY <1>4 DEF Pressed
  <2>2. CASE key = "up"
    <3>1. l.sel = None => Handled(l, Normalized(Select(l, l.hi - 1)))
      BY <1>1, SelectHandled
    <3>2. Handled(l, Normalized(Upwards(l, l.sel, 1)))
      BY <1>1, UpwardsHandled
    <3>. QED  BY <2>1, <2>2, <3>1, <3>2 DEF Moved
  <2>3. CASE key = "pageup"
    BY <1>2, <2>1, <2>3, LastSeenFits, UpwardsHandled DEF Moved
  <2>4. CASE key \in {"down", "pagedown"} /\ l.sel # None
    BY <1>2, <2>1, <2>4, DownwardsHandled DEF Moved
  <2>5. CASE key \in {"down", "pagedown"} /\ l.sel = None
    <3>1. Lost(l)
      BY <1>4, <2>5 DEF Lost
    <3>2. Handled(l, Normalized(Select(l, l.lo))) /\ Handled(l, Normalized(Select(l, l.top)))
      BY <1>1, <3>1, SelectHandled
    <3>. QED  BY <2>1, <2>5, <3>2 DEF Moved
  <2>6. CASE key = "home"
    BY <1>1, <2>1, <2>6, SelectHandled DEF Moved
  <2>7. CASE key = "end"
    BY <2>1, <2>7, FollowHandled DEF Moved
  <2>8. CASE key = "return"
    <3>1. /\ Sound(e) /\ e.lo = l.lo /\ e.hi = l.hi /\ e.top = l.top /\ e.rows = l.rows
          /\ e.sel = (IF Holds(l, l.sel) THEN l.sel ELSE None)
          /\ e.follow = (l.follow /\ e.sel = None)
      BY <2>1, <2>8, NormalizedSound DEF Moved
    <3>2. e.sel < e.hi
      BY <1>1, <3>1 DEF None
    <3>3. Lost(e) => Lost(l) \/ Start(l) < l.lo
      <4>1. l.sel # None /\ ~Holds(l, l.sel) => Start(l) < l.lo
        BY <1>1 DEF Holds, Start
      <4>. QED  BY <3>1, <4>1 DEF Lost
    <3>. QED  BY <3>1, <3>2, <3>3 DEF Handled
  <2>. QED
    BY <2>2, <2>3, <2>4, <2>5, <2>6, <2>7, <2>8 DEF Keys
<1>. QED
  BY <1>3, <1>4

LEMMA WheeledHandled ==
  ASSUME NEW l, Sound(l), ~NoItems(l), Above(l), NEW key \in {"up", "down"},
         NEW e, e = Wheeled(l, key)
  PROVE  Handled(l, e)
<1>1. /\ l.lo \in Nat /\ l.top \in Nat /\ l.top < l.hi
  BY Fields DEF Sound, Above
<1>2. CASE key = "up"
  BY <1>2, LastSeenFits, UpwardsHandled DEF Wheeled
<1>3. CASE key = "down" /\ l.sel = None
  <2>1. l.lo <= l.top \/ Start(l) < l.lo
    BY <1>1, <1>3 DEF Start
  <2>. QED  BY <1>1, <1>3, <2>1, SelectHandled DEF Wheeled
<1>4. CASE key = "down" /\ l.sel # None
  BY <1>4, DownwardsHandled DEF Wheeled
<1>. QED
  BY <1>2, <1>3, <1>4

-----------------------------------------------------------------------------
(* The invariant *)

\* The cursor and the viewport are on items there are, or were, and an empty
\* list follows the tail.
Placed(l) ==
  /\ Sound(l) /\ l.sel < l.hi
  /\ l.follow => l.sel = None
  /\ IF NoItems(l) THEN l.follow /\ l.top <= l.hi /\ l.hi = 0 ELSE l.top < l.hi
  /\ l.rows \subseteq 0 .. l.hi - 1

LPInv ==
  /\ LPTypeOK
  /\ entries.hi + appended <= MaxEntries
  /\ Placed(entries)
  /\ FrameShowsCursor

\* What a cursor that is lost in a step has behind it.
LostByTrim(l, e) == ~Lost(l) /\ Lost(e) => Start(l) < e.lo

LEMMA DrainedPlaced ==
  ASSUME LPInv, NEW e, e = Drained
  PROVE  /\ Placed(e) /\ e.hi <= MaxEntries
         /\ e.sel = entries.sel /\ e.follow = entries.follow
         /\ e.lo >= entries.lo /\ (NoItems(e) => NoItems(entries))
<1>1. /\ Sound(entries) /\ appended \in Nat /\ entries.hi + appended <= MaxEntries
      /\ entries.lo \in Nat /\ entries.hi \in Nat /\ entries.top \in Nat
      /\ entries.sel \in Int
  BY Fields, Numbers DEF LPInv, LPTypeOK, Placed, Sound, None
<1>2. /\ Sound(e) /\ e.sel = entries.sel /\ e.follow = entries.follow /\ e.top = entries.top
      /\ e.lo >= entries.lo
  BY <1>1, ExtendedSound DEF Drained
<1>3. e.hi = entries.hi + appended /\ e.rows = entries.rows
  <2>1. entries \in ListOf(MaxEntries)
    BY <1>1 DEF Sound
  <2> DEFINE hi == entries.hi + appended
             lo == Larger(entries.lo, entries.hi + appended - LogLimit)
  <2>2. e = [entries EXCEPT !.hi = hi, !.lo = lo]
    BY DEF Drained, Extended
  <2> HIDE DEF hi, lo
  <2>3. e.hi = hi /\ e.rows = entries.rows
    BY <2>1, <2>2 DEF ListOf
  <2>. QED  BY <2>3 DEF hi
<1>4. e.lo = Larger(entries.lo, entries.hi + appended - LogLimit)
  BY <1>1 DEF Drained, Extended, Sound, ListOf
<1>5. e.lo \in Nat /\ e.hi \in Nat
  BY <1>2, Fields DEF Sound
<1>6. NoItems(e) => NoItems(entries) /\ appended = 0
  BY <1>1, <1>3, <1>4, Numbers DEF NoItems, Larger, Sound
<1>7. e.sel < e.hi /\ (e.follow => e.sel = None)
  BY <1>1, <1>2, <1>3 DEF LPInv, Placed
<1>8. NoItems(e) => e.follow /\ e.top <= e.hi /\ e.hi = 0
  BY <1>1, <1>2, <1>3, <1>6 DEF LPInv, Placed
<1>9. ~NoItems(e) => e.top < e.hi
  <2>1. CASE NoItems(entries)
    <3>1. entries.top <= entries.hi
      BY <2>1 DEF LPInv, Placed
    <3>2. e.lo < e.hi => appended > 0
      BY <1>1, <1>3, <1>4, <2>1, Numbers DEF NoItems, Larger
    <3>. QED  BY <1>1, <1>2, <1>3, <1>5, <3>1, <3>2 DEF NoItems
  <2>2. CASE ~NoItems(entries)
    BY <1>1, <1>2, <1>3, <2>2 DEF LPInv, Placed
  <2>. QED  BY <2>1, <2>2
<1>10. e.rows \subseteq 0 .. e.hi - 1
  BY <1>1, <1>3 DEF LPInv, Placed
<1>. QED
  BY <1>1, <1>2, <1>3, <1>6, <1>7, <1>8, <1>9, <1>10 DEF Placed

LEMMA HandledPlaced ==
  ASSUME NEW l, Placed(l), ~NoItems(l), NEW e, Handled(l, e)
  PROVE  Placed(e) /\ LostByTrim(l, e)
<1>1. Placed(e)
  BY DEF Placed, Handled, NoItems
<1>2. LostByTrim(l, e)
  BY DEF Handled, LostByTrim
<1>. QED
  BY <1>1, <1>2

\* A step that changes the list as an event does.
LEMMA ChangedKeeps ==
  ASSUME LPInv, NEW l, Changed(l), Placed(l), l.hi = entries.hi
  PROVE  LPInv'
<1>1. /\ entries' = l /\ fresh' = FALSE /\ appended' = appended /\ hidden' = hidden
  BY DEF Changed
<1>2. LPTypeOK'
  BY <1>1 DEF LPInv, LPTypeOK, Placed, Sound
<1>3. FrameShowsCursor'
  BY <1>1 DEF FrameShowsCursor
<1>4. Placed(entries)'
  BY <1>1 DEF Placed, Sound, NoItems
<1>. QED
  BY <1>1, <1>2, <1>3, <1>4 DEF LPInv

LEMMA KeyKeeps ==
  ASSUME LPInv, NEW key \in Keys, LogKey(key)
  PROVE  LPInv' /\ LostByTrim(entries, entries')
<1>1. PICK e : e = Pressed(entries, key)
  OBVIOUS
<1>2. Changed(e)
  BY <1>1 DEF LogKey
<1>3. CASE NoItems(entries)
  <2>1. e = entries
    BY <1>1, <1>3 DEF Pressed
  <2>. QED
    BY <1>2, <2>1, ChangedKeeps DEF LPInv, Changed, LostByTrim
<1>4. CASE ~NoItems(entries)
  <2>1. Placed(entries) /\ Sound(entries) /\ Above(entries) /\ (entries.follow => entries.sel = None)
    BY <1>4 DEF LPInv, Placed, Above
  <2>2. Handled(entries, e)
    BY <1>1, <1>4, <2>1, PressedHandled
  <2>3. Placed(e) /\ LostByTrim(entries, e) /\ e.hi = entries.hi
    BY <1>4, <2>1, <2>2, HandledPlaced DEF Handled
  <2>. QED
    BY <1>2, <2>3, ChangedKeeps DEF Changed
<1>. QED
  BY <1>3, <1>4

LEMMA WheelKeeps ==
  ASSUME LPInv, NEW key \in {"up", "down"}, LogWheel(key)
  PROVE  LPInv' /\ LostByTrim(entries, entries')
<1>1. PICK e : e = Wheeled(entries, key)
  OBVIOUS
<1>2. Changed(e)
  BY <1>1 DEF LogWheel
<1>3. CASE NoItems(entries)
  <2>1. e = entries
    BY <1>1, <1>3 DEF Wheeled
  <2>. QED
    BY <1>2, <2>1, ChangedKeeps DEF LPInv, Changed, LostByTrim
<1>4. CASE ~NoItems(entries)
  <2>1. Placed(entries) /\ Sound(entries) /\ Above(entries)
    BY <1>4 DEF LPInv, Placed, Above
  <2>2. Handled(entries, e)
    BY <1>1, <1>4, <2>1, WheeledHandled
  <2>3. Placed(e) /\ LostByTrim(entries, e) /\ e.hi = entries.hi
    BY <1>4, <2>1, <2>2, HandledPlaced DEF Handled
  <2>. QED
    BY <1>2, <2>3, ChangedKeeps DEF Changed
<1>. QED
  BY <1>3, <1>4

\* A click leaves a cursor, on an item or where there was one.
LEMMA ClickKeeps ==
  ASSUME LPInv, NEW i \in entries.rows, LogClick(i)
  PROVE  LPInv' /\ LostByTrim(entries, entries')
<1>1. PICK e : e = Clicked(entries, i)
  OBVIOUS
<1>2. Changed(e)
  BY <1>1 DEF LogClick
<1>3. /\ Sound(entries) /\ entries.hi \in Nat /\ i \in 0 .. entries.hi - 1
      /\ Placed(entries)
  BY Fields DEF LPInv, Placed, Sound
<1>4. i \in None .. entries.hi - 1 /\ i # None
  BY <1>3 DEF None
<1>5. SameItems(entries, e) /\ e.sel = i /\ e.follow = FALSE
  BY <1>1, <1>3, <1>4, CursorMoved DEF Clicked, Select
<1>6. ~NoItems(entries)
  BY <1>3 DEF Placed
<1>7. Placed(e) /\ LostByTrim(entries, e) /\ e.hi = entries.hi
  BY <1>3, <1>4, <1>5, <1>6 DEF Placed, SameItems, LostByTrim, Lost, NoItems
<1>. QED
  BY <1>2, <1>7, ChangedKeeps DEF Changed

\* A frame, in which the items are trimmed.
LEMMA FrameKeeps ==
  ASSUME LPInv, NEW h \in LogHeights, LogFrame(h)
  PROVE  LPInv' /\ LostByTrim(entries, entries')
<1>1. PICK e : e = Drained
  OBVIOUS
<1>2. /\ Placed(e) /\ e.hi <= MaxEntries /\ e.sel = entries.sel /\ e.follow = entries.follow
      /\ e.lo >= entries.lo /\ (NoItems(e) => NoItems(entries))
  BY <1>1, DrainedPlaced
<1>3. /\ appended' = 0 /\ fresh' = ~hidden /\ hidden' = hidden
      /\ entries' = IF hidden THEN e ELSE Drawn(e, h)
  BY <1>1 DEF LogFrame
<1>4. /\ Placed(entries) /\ Sound(e)
      /\ entries.sel \in Int /\ entries.lo \in Nat /\ e.lo \in Nat /\ e.hi \in Nat
  BY <1>2, Fields DEF LPInv, Placed, Sound, None
<1>5. hidden \in BOOLEAN /\ MaxEntries \in Nat
  BY Numbers DEF LPInv, LPTypeOK
<1>6. CASE hidden
  <2>1. entries' = e /\ fresh' = FALSE
    BY <1>3, <1>6
  <2>2. LostByTrim(entries, e)
    BY <1>2, <1>4 DEF Lost, Placed, LostByTrim
  <2>3. LPTypeOK' /\ Placed(entries)'
    BY <1>2, <1>3, <1>4, <1>5, <2>1 DEF LPTypeOK, Placed, Sound, NoItems
  <2>4. FrameShowsCursor' /\ entries'.hi + appended' <= MaxEntries
    BY <1>2, <1>3, <1>4, <2>1 DEF FrameShowsCursor
  <2>. QED
    BY <2>1, <2>2, <2>3, <2>4 DEF LPInv
<1>7. CASE ~hidden
  <2>1. PICK d : d = Drawn(e, h)
    OBVIOUS
  <2>2. /\ Sound(d) /\ d.lo = e.lo /\ d.hi = e.hi /\ d.top <= d.hi /\ (d.lo < d.hi => d.top < d.hi)
        /\ d.sel = Normalized(e).sel /\ d.follow = Normalized(e).follow
        /\ d.rows \subseteq d.lo .. d.hi - 1
        /\ d.sel # None => d.sel \in d.rows /\ ~d.follow
        /\ d.lo < d.hi /\ d.follow => d.hi - 1 \in d.rows
    BY <1>4, <2>1, DrawnShows
  <2>3. /\ d.sel = (IF Holds(e, e.sel) THEN e.sel ELSE None)
        /\ d.follow = (e.follow /\ d.sel = None)
    BY <1>4, <2>2, NormalizedSound
  <2>4. Placed(d)
    <3>1. d.sel < d.hi
      BY <1>4, <2>2, <2>3 DEF Holds, None
    <3>2. NoItems(d) => d.follow /\ d.hi = 0
      BY <1>2, <1>4, <2>2, <2>3 DEF Placed, NoItems, Holds
    <3>. QED  BY <1>4, <2>2, <2>3, <3>1, <3>2 DEF Placed, NoItems
  <2>5. LostByTrim(entries, d)
    <3>1. SUFFICES ASSUME ~Lost(entries), Lost(d)  PROVE Start(entries) < d.lo
      BY DEF LostByTrim
    <3>2. ~NoItems(d) /\ d.sel = None /\ ~e.follow
      BY <2>3, <3>1 DEF Lost
    <3>3. entries.sel # None
      BY <1>2, <1>4, <3>1, <3>2 DEF Lost, Placed
    <3>4. ~Holds(e, entries.sel)
      BY <1>2, <2>3, <3>2, <3>3
    <3>5. entries.sel < e.hi
      BY <1>2 DEF Placed
    <3>. QED  BY <1>4, <2>2, <3>3, <3>4, <3>5 DEF Holds, Start
  <2>6. entries' = d
    BY <1>3, <1>7, <2>1
  <2>7. FrameShowsCursor'
    BY <2>2, <2>6 DEF FrameShowsCursor
  <2>8. LPTypeOK'
    BY <1>3, <1>5, <2>2, <2>6 DEF LPTypeOK, Sound
  <2>9. Placed(entries)' /\ entries'.hi + appended' <= MaxEntries
    BY <1>2, <1>3, <1>4, <2>2, <2>4, <2>6 DEF Placed, Sound, NoItems
  <2>. QED
    BY <2>5, <2>6, <2>7, <2>8, <2>9 DEF LPInv
<1>. QED
  BY <1>5, <1>6, <1>7

LEMMA InitLPInv == LPInit => LPInv
<1>. SUFFICES ASSUME LPInit  PROVE LPInv
  OBVIOUS
<1>1. PICK l : l = NewList(None, TRUE)
  OBVIOUS
<1>2. /\ entries = l /\ appended = 0 /\ hidden = FALSE /\ fresh = FALSE
  BY <1>1 DEF LPInit
<1>3. /\ l \in ListOf(MaxEntries) /\ l.lo = 0 /\ l.hi = 0 /\ l.sel = None /\ l.follow = TRUE
      /\ l.top = 0 /\ l.rows = {}
  BY <1>1, Numbers DEF NewList, ListOf, None
<1>4. LPTypeOK /\ Sound(entries)
  <2>1. entries \in ListOf(MaxEntries) /\ entries.lo = 0 /\ entries.hi = 0
    BY <1>2, <1>3
  <2>2. appended \in 0 .. MaxEntries
    BY <1>2, Numbers
  <2>3. {hidden, fresh} \subseteq BOOLEAN
    BY <1>2, Zenon
  <2>. QED  BY <2>1, <2>2, <2>3, Numbers DEF LPTypeOK, Sound
<1>5. Placed(entries)
  BY <1>2, <1>3, <1>4 DEF Placed, NoItems, None
<1>6. FrameShowsCursor /\ entries.hi + appended <= MaxEntries
  BY <1>2, <1>3, Numbers DEF FrameShowsCursor
<1>. QED
  BY <1>4, <1>5, <1>6 DEF LPInv

LEMMA StepKeeps ==
  ASSUME LPInv, [LPNext]_lpvars
  PROVE  LPInv' /\ LostByTrim(entries, entries')
<1>1. CASE AppendLog
  <2>1. /\ entries' = entries /\ hidden' = hidden /\ fresh' = FALSE
        /\ appended' = appended + 1 /\ entries.hi + appended < MaxEntries
    BY <1>1 DEF AppendLog
  <2>2. appended \in Nat /\ entries.hi \in Nat
    BY Fields, Numbers DEF LPInv, LPTypeOK
  <2>3. appended' \in 0 .. MaxEntries /\ entries'.hi + appended' <= MaxEntries
    BY <2>1, <2>2, Numbers
  <2>. QED
    BY <2>1, <2>3 DEF LPInv, LPTypeOK, Placed, Sound, NoItems, FrameShowsCursor, LostByTrim
<1>2. CASE LogTab
  BY <1>2 DEF LogTab, LPInv, LPTypeOK, Placed, Sound, NoItems, FrameShowsCursor, LostByTrim
<1>3. CASE UNCHANGED lpvars
  BY <1>3 DEF lpvars, LPInv, LPTypeOK, Placed, Sound, NoItems, FrameShowsCursor, LostByTrim
<1>. QED
  BY <1>1, <1>2, <1>3, FrameKeeps, KeyKeeps, WheelKeeps, ClickKeeps DEF LPNext

-----------------------------------------------------------------------------
(* The theorems *)

THEOREM LogPaneInvariant == LPSpec => []LPInv
<1>1. LPInv /\ [LPNext]_lpvars => LPInv'
  BY StepKeeps
<1>. QED
  BY InitLPInv, <1>1, PTL DEF LPSpec

\* A frame that shows the list shows the selected entry, or the newest one,
\* and no entry that was trimmed, for any limit, height and number of entries.
THEOREM FrameShowsCursorCorrect == LPSpec => []FrameShowsCursor
<1>1. LPInv => FrameShowsCursor
  BY DEF LPInv
<1>. QED
  BY LogPaneInvariant, <1>1, PTL

\* The list stops following the tail, with nothing selected, only where the
\* entry under the cursor, or on top of the viewport, was trimmed.
THEOREM CursorLostCorrect == LPSpec => CursorLost
<1> DEFINE Act == ~Lost(entries) /\ Lost(entries') =>
                    (IF entries.sel = None THEN entries.top ELSE entries.sel) < entries'.lo
<1>1. LPInv /\ [LPNext]_lpvars => [Act]_lpvars
  BY StepKeeps DEF LostByTrim, Start
<1>. QED
  BY LogPaneInvariant, <1>1, PTL DEF LPSpec, CursorLost

-----------------------------------------------------------------------------
(* The lists of the tabs *)

ListShape ==
  [lo : {0}, hi : Nat, sel : Int, follow : BOOLEAN, top : Int, height : Int, rows : SUBSET Int]

LEMMA ListFields ==
  ASSUME NEW l \in ListShape
  PROVE  /\ l.lo = 0 /\ l.hi \in Nat /\ l.sel \in Int /\ l.follow \in BOOLEAN
         /\ l.top \in Int /\ l.height \in Int /\ l.rows \subseteq Int
BY DEF ListShape

LEMMA NormalizedShape ==
  ASSUME NEW l \in ListShape
  PROVE  /\ Normalized(l) \in ListShape
         /\ Normalized(l).hi = l.hi /\ Normalized(l).sel = IF Holds(l, l.sel) THEN l.sel ELSE None
<1>1. PICK sel \in Int : sel = IF Holds(l, l.sel) THEN l.sel ELSE None
  BY ListFields DEF None
<1>2. PICK follow \in BOOLEAN : follow = (l.follow /\ sel = None)
  BY ListFields
<1>3. Normalized(l) = [l EXCEPT !.sel = sel, !.follow = follow]
  BY <1>1, <1>2 DEF Normalized
<1>. QED
  BY <1>1, <1>3 DEF ListShape

LEMMA BoundsType ==
  ASSUME NEW m \in Int, NEW n \in Int, NEW k \in Int
  PROVE  Larger(m, n) \in Int /\ Smaller(m, n) \in Int /\ Clamp(m, n, k) \in Int
BY DEF Larger, Smaller, Clamp

LEMMA LastSeenType ==
  ASSUME NEW l \in ListShape
  PROVE  LastSeen(l) \in Int /\ PageStep(l) \in Int
BY ListFields DEF LastSeen, PageStep, Larger, Smaller

LEMMA PositionType ==
  ASSUME NEW l \in ListShape
  PROVE  Position(l) \in Nat
BY ListFields DEF Position, Holds

\* Drawing a list does not move its cursor from an item.
LEMMA DrawnPosition ==
  ASSUME NEW l \in ListShape, NEW h \in Int
  PROVE  Drawn(l, h) \in ListShape /\ Position(Drawn(l, h)) = Position(l)
<1>1. PICK n : n = Normalized(l)
  OBVIOUS
<1>2. n \in ListShape /\ n.hi = l.hi /\ n.sel = IF Holds(l, l.sel) THEN l.sel ELSE None
  BY <1>1, NormalizedShape
<1>3. Top(n) \in Int
  <2>1. LastTop(n) \in Int
    <3>1. n.lo \in Int /\ n.hi - n.height \in Int
      BY <1>2, ListFields
    <3>. QED
      BY <3>1 DEF LastTop, Larger
  <2>2. PICK scrolled \in Int :
          scrolled = IF n.sel = None THEN n.top ELSE Clamp(n.top, n.sel - n.height + 1, n.sel)
    <3>1. n.top \in Int /\ n.sel \in Int /\ n.sel - n.height + 1 \in Int
      BY <1>2, ListFields
    <3>. QED
      BY <3>1, BoundsType
  <2>3. Clamp(scrolled, n.lo, LastTop(n)) \in Int
    <3>1. n.lo \in Int
      BY <1>2, ListFields
    <3>. QED
      BY <2>1, <3>1, BoundsType
  <2>4. n.lo \in Int
    BY <1>2, ListFields
  <2>. QED
    BY <2>1, <2>2, <2>3, <2>4 DEF Top
<1>4. PICK top, rows : top = Top(n) /\ rows = top .. Smaller(n.hi, top + n.height) - 1
  OBVIOUS
<1>5. PICK d : d = [n EXCEPT !.top = top, !.height = h, !.rows = rows]
  OBVIOUS
<1>6. Drawn(l, h) = d
  BY <1>1, <1>4, <1>5 DEF Drawn
<1>7. rows \subseteq Int /\ top \in Int
  BY <1>3, <1>4
<1>8. d \in ListShape /\ d.sel = n.sel /\ d.hi = n.hi /\ d.lo = n.lo
  BY <1>2, <1>5, <1>7 DEF ListShape
<1>9. Position(d) = Position(l)
  BY <1>2, <1>8, ListFields DEF Position, Holds, None
<1>. QED
  BY <1>6, <1>8, <1>9

-----------------------------------------------------------------------------
(* What frames and inputs leave of a list *)

\* A list whose cursor, viewport and rows are of its items, as far as it has any.
WellPlaced(l) ==
  /\ l \in ListShape /\ l.sel \in None .. Larger(l.hi - 1, 0)
  /\ l.top \in 0 .. l.hi /\ l.height \in {1, Height} /\ l.rows \subseteq 0 .. l.hi - 1

\* What an event leaves of a list.
LeavesPlaced(l, e) == e \in ListShape /\ e.hi = l.hi /\ (WellPlaced(l) => WellPlaced(e))

LEMMA ScreenNumbers ==
  /\ Height \in Nat /\ Height > 0 /\ MaxTabs \in Nat /\ MaxTabs > 0
  /\ MaxTrace \in Nat /\ MaxTrace > 0 /\ MaxInputs \in Nat /\ MaxInputs > 0
BY TuiAssumption

LEMMA WellPlacedListed ==
  ASSUME NEW l, WellPlaced(l), NEW max \in Nat, max > 0, l.hi <= max
  PROVE  l \in Listed(max)
<1>1. l \in ListShape /\ l.hi \in Nat /\ l.lo = 0 /\ l.sel \in Int /\ l.follow \in BOOLEAN
  BY ListFields DEF WellPlaced
<1>2. l.hi \in 0 .. max /\ l.top \in 0 .. max /\ l.height \in {1, Height}
  BY <1>1 DEF WellPlaced
<1>3. l.sel \in None .. max - 1
  BY <1>1 DEF WellPlaced, Larger, None
<1>4. l.rows \in SUBSET (0 .. max)
  BY <1>1 DEF WellPlaced
<1>5. l = [lo |-> l.lo, hi |-> l.hi, sel |-> l.sel, follow |-> l.follow, top |-> l.top,
           height |-> l.height, rows |-> l.rows]
  BY <1>1 DEF ListShape
<1>. QED
  BY <1>1, <1>2, <1>3, <1>4, <1>5 DEF Listed

LEMMA NewListPlaced ==
  ASSUME NEW follow \in BOOLEAN
  PROVE  WellPlaced(NewList(0, follow)) /\ NewList(0, follow).hi = 0
<1>1. PICK l : l = NewList(0, follow)
  OBVIOUS
<1>2. l \in ListShape /\ l.hi = 0 /\ l.sel = 0 /\ l.top = 0 /\ l.height = 1 /\ l.rows = {}
  BY <1>1 DEF NewList, ListShape
<1>3. 0 \in None .. Larger(0 - 1, 0)
  BY DEF None, Larger
<1>. QED
  BY <1>1, <1>2, <1>3 DEF WellPlaced

\* Items are added.
LEMMA GrownPlaced ==
  ASSUME NEW l, WellPlaced(l), NEW n \in Nat, n >= l.hi
  PROVE  WellPlaced([l EXCEPT !.hi = n]) /\ [l EXCEPT !.hi = n].hi = n
<1>1. PICK e : e = [l EXCEPT !.hi = n]
  OBVIOUS
<1>2. l \in ListShape
  BY DEF WellPlaced
<1>3. /\ e \in ListShape /\ e.hi = n /\ e.sel = l.sel /\ e.top = l.top /\ e.height = l.height
      /\ e.rows = l.rows
  BY <1>1, <1>2 DEF ListShape
<1>4. l.hi \in Nat /\ l.sel \in Int
  BY <1>2, ListFields
<1>5. l.sel \in None .. Larger(n - 1, 0)
  BY <1>4 DEF WellPlaced, None, Larger
<1>6. l.top \in 0 .. n /\ l.rows \subseteq 0 .. n - 1 /\ l.height \in {1, Height}
  BY <1>4 DEF WellPlaced
<1>. QED
  BY <1>1, <1>3, <1>5, <1>6 DEF WellPlaced

LEMMA ExtendedPlaced ==
  ASSUME NEW l, WellPlaced(l), NEW n \in Nat, NEW limit \in Nat, l.hi + n <= limit
  PROVE  WellPlaced(Extended(l, n, limit)) /\ Extended(l, n, limit).hi = l.hi + n
<1>1. l \in ListShape /\ l.hi \in Nat /\ l.lo = 0
  BY ListFields DEF WellPlaced
<1>2. Larger(l.lo, l.hi + n - limit) = l.lo
  BY <1>1 DEF Larger
<1>3. PICK m \in Nat : m = l.hi + n
  BY <1>1
<1>4. Extended(l, n, limit) = [l EXCEPT !.hi = m]
  <2>1. Extended(l, n, limit) = [l EXCEPT !.hi = m, !.lo = l.lo]
    BY <1>2, <1>3 DEF Extended
  <2>2. [l EXCEPT !.hi = m, !.lo = l.lo] = [l EXCEPT !.hi = m]
    BY <1>1 DEF ListShape
  <2>. QED
    BY <2>1, <2>2
<1>5. m >= l.hi
  BY <1>1, <1>3
<1>. QED
  BY <1>3, <1>4, <1>5, GrownPlaced

\* Only its cursor distinguishes c from l.
CursorOf(l, c) ==
  c \in ListShape /\ c.hi = l.hi /\ c.top = l.top /\ c.height = l.height /\ c.rows = l.rows

LEMMA SelectCursor ==
  ASSUME NEW l \in ListShape, NEW i \in Int
  PROVE  CursorOf(l, Select(l, i)) /\ CursorOf(l, FollowTail(l))
<1>1. CursorOf(l, [l EXCEPT !.sel = i, !.follow = FALSE])
  BY DEF CursorOf, ListShape
<1>2. CursorOf(l, [l EXCEPT !.sel = None, !.follow = TRUE])
  <2>1. PICK none \in Int : none = None
    BY DEF None
  <2>2. CursorOf(l, [l EXCEPT !.sel = none, !.follow = TRUE])
    BY DEF CursorOf, ListShape
  <2>. QED
    BY <2>1, <2>2
<1>. QED
  BY <1>1, <1>2 DEF Select, FollowTail

LEMMA NormalizedMoves ==
  ASSUME NEW l \in ListShape, NEW c, CursorOf(l, c)
  PROVE  LeavesPlaced(l, Normalized(c))
<1>1. PICK n : n = Normalized(c)
  OBVIOUS
<1>2. PICK sel \in Int : sel = IF Holds(c, c.sel) THEN c.sel ELSE None
  BY ListFields DEF None, CursorOf
<1>3. PICK follow \in BOOLEAN : follow = (c.follow /\ sel = None)
  BY ListFields
<1>4. n = [c EXCEPT !.sel = sel, !.follow = follow]
  BY <1>1, <1>2, <1>3 DEF Normalized
<1>5. c \in ListShape
  BY DEF CursorOf
<1>6. /\ n \in ListShape /\ n.hi = c.hi /\ n.sel = sel /\ n.top = c.top /\ n.height = c.height
      /\ n.rows = c.rows
  BY <1>4, <1>5 DEF ListShape
<1>7. sel \in None .. Larger(l.hi - 1, 0)
  <2>1. c.lo = 0 /\ c.hi \in Nat /\ c.sel \in Int /\ c.hi = l.hi
    BY <1>5, ListFields DEF CursorOf
  <2>. QED
    BY <1>2, <2>1 DEF Holds, None, Larger
<1>8. n.hi = l.hi /\ n.top = l.top /\ n.height = l.height /\ n.rows = l.rows
  BY <1>6 DEF CursorOf
<1>. QED
  BY <1>1, <1>6, <1>7, <1>8 DEF WellPlaced, LeavesPlaced

\* Whatever a list is, a key moves no more than its cursor.
LEMMA PressedMoves ==
  ASSUME NEW l \in ListShape, NEW key \in Keys
  PROVE  LeavesPlaced(l, Pressed(l, key))
<1>1. CursorOf(l, Moved(l, key))
  <2>1. l.hi - 1 \in Int /\ l.lo \in Int /\ l.top \in Int /\ l.sel \in Int
    BY ListFields
  <2>2. ASSUME NEW from \in Int, NEW n \in Int
        PROVE  CursorOf(l, Upwards(l, from, n)) /\ CursorOf(l, Downwards(l, n))
    <3>1. Larger(l.lo, from - n) \in Int /\ l.sel + n \in Int
      BY <2>1 DEF Larger
    <3>. QED
      BY <3>1, SelectCursor DEF Upwards, Downwards
  <2>3. LastSeen(l) \in Int /\ PageStep(l) \in Int
    BY LastSeenType
  <2>4. CursorOf(l, l)
    BY DEF CursorOf
  <2>5. CASE key = "up"
    BY <2>1, <2>2, <2>5, SelectCursor DEF Moved
  <2>6. CASE key = "pageup"
    BY <2>2, <2>3, <2>6 DEF Moved
  <2>7. CASE key = "down"
    BY <2>1, <2>2, <2>7, SelectCursor DEF Moved
  <2>8. CASE key = "pagedown"
    BY <2>1, <2>2, <2>3, <2>8, SelectCursor DEF Moved
  <2>9. CASE key = "home"
    BY <2>1, <2>9, SelectCursor DEF Moved
  <2>10. CASE key = "end"
    BY <2>1, <2>10, SelectCursor DEF Moved
  <2>11. CASE key = "return"
    BY <2>4, <2>11 DEF Moved
  <2>. QED
    BY <2>5, <2>6, <2>7, <2>8, <2>9, <2>10, <2>11 DEF Keys
<1>2. LeavesPlaced(l, Normalized(Moved(l, key))) /\ LeavesPlaced(l, l)
  BY <1>1, NormalizedMoves DEF LeavesPlaced
<1>. QED
  BY <1>2 DEF Pressed

\* A click is on a row that was drawn, which is still there.
LEMMA ClickedMoves ==
  ASSUME NEW l \in ListShape, NEW i \in l.rows
  PROVE  LeavesPlaced(l, Clicked(l, i))
<1>1. PICK e : e = Select(l, i)
  OBVIOUS
<1>2. i \in Int
  BY ListFields
<1>3. CursorOf(l, e) /\ e.sel = i
  <2>1. e.sel = i
    BY <1>1 DEF Select, ListShape
  <2>. QED
    BY <1>1, <1>2, <2>1, SelectCursor
<1>4. ASSUME WellPlaced(l)  PROVE WellPlaced(e)
  <2>1. l.hi \in Nat /\ i \in 0 .. l.hi - 1
    BY <1>4, ListFields DEF WellPlaced
  <2>2. i \in None .. Larger(l.hi - 1, 0)
    BY <2>1 DEF None, Larger
  <2>. QED
    BY <1>3, <1>4, <2>2 DEF WellPlaced, CursorOf
<1>. QED
  BY <1>1, <1>3, <1>4 DEF Clicked, LeavesPlaced, CursorOf

LEMMA DrawnPlaced ==
  ASSUME NEW l, WellPlaced(l)
  PROVE  WellPlaced(Drawn(l, Height)) /\ Drawn(l, Height).hi = l.hi
<1>1. PICK n : n = Normalized(l)
  OBVIOUS
<1>2. l \in ListShape /\ CursorOf(l, l)
  BY DEF WellPlaced, CursorOf
<1>3. WellPlaced(n) /\ n.hi = l.hi
  BY <1>1, <1>2, NormalizedMoves DEF LeavesPlaced
<1>4. n \in ListShape /\ n.sel = (IF Holds(l, l.sel) THEN l.sel ELSE None)
  BY <1>1, <1>2, NormalizedShape
<1>5. /\ n.lo = 0 /\ n.hi \in Nat /\ n.sel \in Int /\ n.follow \in BOOLEAN /\ n.top \in Nat
      /\ n.height \in Nat /\ n.height > 0
  BY <1>3, <1>4, ListFields, ScreenNumbers DEF WellPlaced
<1>6. Top(n) \in 0 .. n.hi
  <2>1. CASE NoItems(n)
    BY <1>5, <2>1 DEF Top, NoItems
  <2>2. CASE ~NoItems(n)
    <3>1. LastTop(n) \in 0 .. n.hi /\ n.hi > 0
      BY <1>5, <2>2 DEF LastTop, Larger, NoItems
    <3>2. CASE n.follow
      BY <2>2, <3>1, <3>2 DEF Top
    <3>3. CASE ~n.follow
      <4>1. PICK scrolled \in Int :
              scrolled = IF n.sel = None THEN n.top ELSE Clamp(n.top, n.sel - n.height + 1, n.sel)
        <5>1. n.top \in Int /\ n.sel \in Int /\ n.sel - n.height + 1 \in Int
          BY <1>5
        <5>. QED
          BY <5>1, BoundsType
      <4>2. Top(n) = Clamp(scrolled, n.lo, LastTop(n))
        BY <2>2, <3>3, <4>1 DEF Top
      <4>3. Clamp(scrolled, 0, LastTop(n)) \in 0 .. n.hi
        BY <1>5, <3>1 DEF Clamp, Larger, Smaller
      <4>. QED
        BY <1>5, <4>2, <4>3
    <3>. QED
      BY <1>5, <3>2, <3>3
  <2>. QED
    BY <2>1, <2>2
<1>7. PICK top, rows : top = Top(n) /\ rows = top .. Smaller(n.hi, top + n.height) - 1
  OBVIOUS
<1>13. PICK h \in Int : h = Height
  BY ScreenNumbers
<1>8. PICK d : d = [n EXCEPT !.top = top, !.height = h, !.rows = rows]
  OBVIOUS
<1>9. Drawn(l, Height) = d
  BY <1>1, <1>7, <1>8, <1>13 DEF Drawn
<1>10. top \in 0 .. n.hi /\ rows \subseteq 0 .. n.hi - 1 /\ rows \subseteq Int /\ top \in Int
  <2>1. top \in 0 .. n.hi
    BY <1>6, <1>7
  <2>2. rows \subseteq 0 .. n.hi - 1
    BY <1>5, <1>7, <2>1 DEF Smaller
  <2>. QED
    BY <2>1, <2>2
<1>11. /\ d \in ListShape /\ d.hi = n.hi /\ d.sel = n.sel /\ d.top = top /\ d.height = h
       /\ d.rows = rows
  BY <1>4, <1>8, <1>10 DEF ListShape
<1>12. n.sel \in None .. Larger(n.hi - 1, 0)
  BY <1>3 DEF WellPlaced
<1>. QED
  BY <1>3, <1>9, <1>10, <1>11, <1>12, <1>13 DEF WellPlaced

-----------------------------------------------------------------------------
(* The threads as the observer has them, and as the runtime does *)

ThreadShape ==
  [trace : Seq({"user", "agent"}), frames : Seq([to : {"user", "agent"}, id : Nat]), due : BOOLEAN]
AppliedRecord == [op : {"thread", "call", "answer", "work", "ask", "return"}, thread : Nat]

LEMMA FrontType ==
  ASSUME NEW S, NEW s \in Seq(S)
  PROVE  Front(s) \in Seq(S)
<1>1. Len(s) \in Nat /\ Len(s) - 1 \in Int /\ 1 \in Int /\ \A i \in 1 .. Len(s) - 1 : s[i] \in S
  OBVIOUS
<1>. QED
  BY <1>1, SubSeqProperties DEF Front

LEMMA LastType ==
  ASSUME NEW S, NEW s \in Seq(S), s # <<>>
  PROVE  Last(s) \in S
<1>1. Len(s) \in 1 .. Len(s)
  BY EmptySeq
<1>. QED
  BY <1>1 DEF Last

\* How many messages of a thread are the user's.
UserSum(th) == Cardinality(FromUser(th))

LEMMA UserSumType ==
  ASSUME NEW th \in ThreadShape
  PROVE  UserSum(th) \in Nat /\ IsFiniteSet(FromUser(th))
<1>1. th.trace \in Seq({"user", "agent"})
  BY DEF ThreadShape
<1>2. IsFiniteSet(1 .. Len(th.trace)) /\ FromUser(th) \subseteq 1 .. Len(th.trace)
  <2>1. DOMAIN th.trace = 1 .. Len(th.trace) /\ Len(th.trace) \in Int /\ 1 \in Int
    BY <1>1
  <2>2. IsFiniteSet(1 .. Len(th.trace))
    BY <2>1, FS_Interval
  <2>. QED
    BY <2>1, <2>2 DEF FromUser
<1>3. IsFiniteSet(FromUser(th))
  BY <1>2, FS_Subset
<1>. QED
  BY <1>3, FS_CardinalityType DEF UserSum

\* A message of a's is one more of them, if a is the user.
LEMMA UserSumNext ==
  ASSUME NEW th \in ThreadShape, NEW a \in {"user", "agent"},
         NEW e \in ThreadShape, e.trace = Append(th.trace, a)
  PROVE  UserSum(e) = IF a = "user" THEN UserSum(th) + 1 ELSE UserSum(th)
<1>. DEFINE n == Len(th.trace)
<1>1. th.trace \in Seq({"user", "agent"}) /\ n \in Nat
  BY DEF ThreadShape
<1>2. /\ DOMAIN e.trace = 1 .. n + 1 /\ DOMAIN th.trace = 1 .. n
      /\ e.trace[n + 1] = a /\ \A i \in 1 .. n : e.trace[i] = th.trace[i]
  BY <1>1
<1>3. n + 1 \notin FromUser(th) /\ IsFiniteSet(FromUser(th)) /\ UserSum(th) \in Nat
  <2>1. n + 1 \notin 1 .. n
    BY <1>1
  <2>2. n + 1 \notin FromUser(th)
    BY <2>1, <1>2 DEF FromUser
  <2>. QED
    BY <2>2, UserSumType
<1>4. 1 .. n + 1 = (1 .. n) \cup {n + 1}
  BY <1>1
<1>5. FromUser(e) = IF a = "user" THEN FromUser(th) \cup {n + 1} ELSE FromUser(th)
  BY <1>2, <1>4 DEF FromUser
<1>6. CASE a = "user"
  <2>1. Cardinality(FromUser(th) \cup {n + 1}) = Cardinality(FromUser(th)) + 1
    BY <1>3, FS_AddElement
  <2>. QED
    BY <2>1, <1>5, <1>6 DEF UserSum
<1>7. CASE a # "user"
  BY <1>5, <1>7 DEF UserSum
<1>. QED
  BY <1>6, <1>7

\* What a message does to a thread.
LEMMA ApplyToType ==
  ASSUME NEW th \in ThreadShape, NEW op \in {"call", "answer", "work", "ask", "return"}
  PROVE  /\ ApplyTo(th, op) \in ThreadShape
         /\ UserSum(ApplyTo(th, op)) = IF op \in {"call", "answer"} THEN UserSum(th) + 1 ELSE UserSum(th)
         /\ ApplyTo(th, op).due = IF op \in {"call", "answer"} THEN TRUE
                                  ELSE op = "work" /\ th.due
<1>1. PICK id : id = Len(th.trace) + 1
  OBVIOUS
<1>2. /\ th.trace \in Seq({"user", "agent"}) /\ th.due \in BOOLEAN /\ id \in Nat
      /\ th.frames \in Seq([to : {"user", "agent"}, id : Nat])
  BY <1>1 DEF ThreadShape
<1>3. PICK tu, ta : tu = Append(th.trace, "user") /\ ta = Append(th.trace, "agent")
  OBVIOUS
<1>4. PICK fc, fa, ff : /\ fc = Append(th.frames, [to |-> "agent", id |-> id])
                        /\ fa = Append(th.frames, [to |-> "user", id |-> id])
                        /\ ff = Front(th.frames)
  OBVIOUS
<1>5. /\ tu \in Seq({"user", "agent"}) /\ ta \in Seq({"user", "agent"})
      /\ fc \in Seq([to : {"user", "agent"}, id : Nat])
      /\ fa \in Seq([to : {"user", "agent"}, id : Nat])
      /\ ff \in Seq([to : {"user", "agent"}, id : Nat])
  BY <1>2, <1>3, <1>4, FrontType
<1>6. PICK e : e = ApplyTo(th, op)
  OBVIOUS
<1>7. CASE op = "call"
  <2>1. e = [th EXCEPT !.trace = tu, !.frames = fc, !.due = TRUE]
    BY <1>1, <1>3, <1>4, <1>6, <1>7 DEF ApplyTo, ThreadShape
  <2>2. e \in ThreadShape /\ e.trace = tu /\ e.due = TRUE
    BY <2>1, <1>5 DEF ThreadShape
  <2>3. UserSum(e) = UserSum(th) + 1
    BY <2>2, <1>3, UserSumNext
  <2>. QED
    BY <2>2, <2>3, <1>6, <1>7
<1>8. CASE op = "answer"
  <2>1. e = [th EXCEPT !.trace = tu, !.frames = ff, !.due = TRUE]
    BY <1>1, <1>3, <1>4, <1>6, <1>8 DEF ApplyTo, ThreadShape
  <2>2. e \in ThreadShape /\ e.trace = tu /\ e.due = TRUE
    BY <2>1, <1>5 DEF ThreadShape
  <2>3. UserSum(e) = UserSum(th) + 1
    BY <2>2, <1>3, UserSumNext
  <2>. QED
    BY <2>2, <2>3, <1>6, <1>8
<1>9. CASE op = "work"
  <2>1. e = [th EXCEPT !.trace = ta]
    BY <1>1, <1>3, <1>6, <1>9 DEF ApplyTo
  <2>2. e \in ThreadShape /\ e.trace = ta /\ e.due = th.due
    BY <2>1, <1>5 DEF ThreadShape
  <2>3. UserSum(e) = UserSum(th)
    BY <2>2, <1>3, UserSumNext
  <2>. QED
    BY <2>2, <2>3, <1>2, <1>6, <1>9
<1>10. CASE op = "ask"
  <2>1. e = [th EXCEPT !.trace = ta, !.frames = fa, !.due = FALSE]
    BY <1>1, <1>3, <1>4, <1>6, <1>10 DEF ApplyTo, ThreadShape
  <2>2. e \in ThreadShape /\ e.trace = ta /\ e.due = FALSE
    BY <2>1, <1>5 DEF ThreadShape
  <2>3. UserSum(e) = UserSum(th)
    BY <2>2, <1>3, UserSumNext
  <2>. QED
    BY <2>2, <2>3, <1>6, <1>10
<1>11. CASE op = "return"
  <2>1. e = [th EXCEPT !.trace = ta, !.frames = ff, !.due = FALSE]
    BY <1>1, <1>3, <1>4, <1>6, <1>11 DEF ApplyTo, ThreadShape
  <2>2. e \in ThreadShape /\ e.trace = ta /\ e.due = FALSE
    BY <2>1, <1>5 DEF ThreadShape
  <2>3. UserSum(e) = UserSum(th)
    BY <2>2, <1>3, UserSumNext
  <2>. QED
    BY <2>2, <2>3, <1>6, <1>11
<1>. QED
  BY <1>7, <1>8, <1>9, <1>10, <1>11

LEMMA NewThreadType == NewThread \in ThreadShape /\ UserSum(NewThread) = 0
<1>1. NewThread \in ThreadShape
  BY DEF NewThread, ThreadShape
<1>2. FromUser(NewThread) = {}
  BY DEF NewThread, FromUser
<1>. QED
  BY <1>1, <1>2, FS_EmptySet DEF UserSum

LEMMA AppliedType ==
  ASSUME NEW ths \in Seq(ThreadShape), NEW r \in AppliedRecord
  PROVE  Applied(ths, r) \in Seq(ThreadShape)
<1>1. CASE r.op = "thread"
  BY <1>1, NewThreadType DEF Applied
<1>2. CASE r.op # "thread" /\ r.thread \in DOMAIN ths
  <2>1. r.op \in {"call", "answer", "work", "ask", "return"}
    BY <1>2 DEF AppliedRecord
  <2>2. PICK e : e = ApplyTo(ths[r.thread], r.op)
    OBVIOUS
  <2>3. e \in ThreadShape
    <3>1. ths[r.thread] \in ThreadShape
      BY <1>2
    <3>. QED
      BY <2>1, <2>2, <3>1, ApplyToType
  <2>4. Applied(ths, r) = [ths EXCEPT ![r.thread] = e]
    BY <2>2, <1>2 DEF Applied
  <2>. QED
    BY <2>3, <2>4, <1>2
<1>3. CASE r.op # "thread" /\ r.thread \notin DOMAIN ths
  <2>1. PICK e : e = ApplyTo(ths[r.thread], r.op)
    OBVIOUS
  <2>2. Applied(ths, r) = [ths EXCEPT ![r.thread] = e]
    BY <2>1, <1>3 DEF Applied
  <2>3. [ths EXCEPT ![r.thread] = e] = ths
    <3>1. ths = [i \in DOMAIN ths |-> ths[i]]
      OBVIOUS
    <3>. QED
      BY <3>1, <1>3
  <2>. QED
    BY <2>2, <2>3
<1>. QED
  BY <1>1, <1>2, <1>3

\* h holds what the first records make of the threads.
Applies(h, ths, rs) == h[0] = ths /\ \A i \in 1 .. Len(rs) : h[i] = Applied(h[i - 1], rs[i])

LEMMA AppliesExists ==
  ASSUME NEW ths \in Seq(ThreadShape), NEW rs \in Seq(AppliedRecord)
  PROVE  \E h \in [0 .. Len(rs) -> Seq(ThreadShape)] : Applies(h, ths, rs)
<1>. DEFINE n == Len(rs)
            S == Seq(ThreadShape)
            prev == [g \in 1 .. n |-> g - 1]
            next == [x \in (1 .. n) \X S |-> Applied(x[2], rs[x[1]])]
<1>1. n \in Nat
  OBVIOUS
<1>2. prev \in [1 .. n -> Nat] /\ \A g \in 1 .. n : prev[g] < g
  BY <1>1
<1>3. next \in [(1 .. n) \X S -> S]
  <2>. SUFFICES ASSUME NEW g \in 1 .. n, NEW s \in S PROVE Applied(s, rs[g]) \in S
    OBVIOUS
  <2>1. rs[g] \in AppliedRecord
    OBVIOUS
  <2>. QED
    BY <2>1, AppliedType
<1>4. PICK h \in [0 .. n -> S] : Recursion(h, n, ths, prev, next)
  <2>. HIDE DEF n, prev, next, S
  <2>1. ths \in S
    BY DEF S
  <2>. QED
    BY <1>1, <1>2, <1>3, <2>1, RecursionExists
<1>5. ASSUME NEW i \in 1 .. n  PROVE h[i] = Applied(h[i - 1], rs[i])
  <2>1. h[i] = next[<<i, h[prev[i]]>>] /\ prev[i] = i - 1
    BY <1>4 DEF Recursion
  <2>2. i - 1 \in 0 .. n
    BY <1>1
  <2>3. h[i - 1] \in S
    BY <2>2
  <2>. QED
    BY <2>1, <2>3
<1>. QED
  BY <1>4, <1>5 DEF Recursion, Applies

LEMMA ProcessedIs ==
  ASSUME NEW ths \in Seq(ThreadShape), NEW rs \in Seq(AppliedRecord),
         NEW f, Applies(f, ths, rs)
  PROVE  Processed(ths, rs) = f[Len(rs)]
<1>. DEFINE n == Len(rs)
            Body(d) == [i \in 0 .. n |-> IF i = 0 THEN ths ELSE Applied(d[i - 1], rs[i])]
            after == CHOOSE d : d = Body(d)
<1>1. n \in Nat /\ n \in 0 .. n
  OBVIOUS
<1>2. Processed(ths, rs) = after[n]
  BY DEF Processed
<1>3. \E d : d = Body(d)
  <2>1. PICK h \in [0 .. n -> Seq(ThreadShape)] : Applies(h, ths, rs)
    BY AppliesExists
  <2>2. h = Body(h)
    BY <2>1, <1>1 DEF Applies
  <2>. QED
    BY <2>2
<1>4. after = Body(after)
  <2>. HIDE DEF Body
  <2>. QED
    BY <1>3
<1>. HIDE DEF after
<1>5. PICK h : h = after
  OBVIOUS
<1>6. h = Body(h)
  BY <1>4, <1>5
<1>7. Applies(h, ths, rs)
  <2>1. 0 \in 0 .. n /\ \A k \in 1 .. n : k \in 0 .. n /\ k # 0
    BY <1>1
  <2>2. h[0] = ths
    BY <1>6, <2>1
  <2>3. ASSUME NEW k \in 1 .. n  PROVE h[k] = Applied(h[k - 1], rs[k])
    <3>1. k \in 0 .. n /\ k # 0
      BY <2>1
    <3>2. h[k] = Body(h)[k]
      BY <1>6
    <3>. QED
      BY <3>1, <3>2
  <2>. QED
    BY <2>2, <2>3 DEF Applies
<1>8. \A i \in 0 .. n : f[i] = h[i]
  <2>. DEFINE T == {i \in 0 .. n : f[i] # h[i]}
  <2>. SUFFICES ASSUME T # {} PROVE FALSE
    OBVIOUS
  <2>1. PICK i \in T : \A k \in T : i <= k
    <3>. T \subseteq Nat
      OBVIOUS
    <3>. HIDE DEF T
    <3>. QED  BY LeastNat
  <2>2. i # 0
    BY <1>7 DEF Applies
  <2>3. i \in 1 .. n /\ i - 1 \in 0 .. n /\ i - 1 \notin T
    BY <1>1, <2>1, <2>2
  <2>. QED
    BY <2>3, <1>7 DEF Applies
<1>. QED
  BY <1>1, <1>2, <1>5, <1>8

LEMMA ProcessedNone ==
  ASSUME NEW ths \in Seq(ThreadShape), NEW rs \in Seq(AppliedRecord), Len(rs) = 0
  PROVE  Processed(ths, rs) = ths
<1>1. PICK h \in [0 .. Len(rs) -> Seq(ThreadShape)] : Applies(h, ths, rs)
  BY AppliesExists
<1>2. Processed(ths, rs) = h[Len(rs)]
  BY <1>1, ProcessedIs
<1>. QED
  BY <1>1, <1>2 DEF Applies

\* The observer applies one record more.
LEMMA ProcessedNext ==
  ASSUME NEW ths \in Seq(ThreadShape), NEW rs \in Seq(AppliedRecord), NEW r \in AppliedRecord
  PROVE  Processed(ths, Append(rs, r)) = Applied(Processed(ths, rs), r)
<1>. DEFINE n == Len(rs)
<1>1. PICK q : q = Append(rs, r)
  OBVIOUS
<1>2. /\ q \in Seq(AppliedRecord) /\ Len(q) = n + 1 /\ q[n + 1] = r /\ n \in Nat
      /\ \A i \in 1 .. n : q[i] = rs[i]
  BY <1>1
<1>3. PICK h \in [0 .. n + 1 -> Seq(ThreadShape)] : Applies(h, ths, q)
  BY <1>2, AppliesExists
<1>4. Applies(h, ths, rs)
  <2>1. \A i \in 1 .. n : i \in 1 .. n + 1
    BY <1>2
  <2>. QED
    BY <2>1, <1>2, <1>3 DEF Applies
<1>5. Processed(ths, rs) = h[n]
  BY <1>4, ProcessedIs
<1>6. Processed(ths, q) = h[n + 1]
  BY <1>2, <1>3, ProcessedIs
<1>7. h[n + 1] = Applied(h[n], r)
  <2>1. n + 1 \in 1 .. n + 1 /\ (n + 1) - 1 = n
    BY <1>2
  <2>2. PICK k \in 1 .. n + 1 : k = n + 1
    BY <2>1
  <2>3. h[k] = Applied(h[k - 1], q[k]) /\ k - 1 = n
    BY <2>1, <2>2, <1>2, <1>3 DEF Applies
  <2>. QED
    BY <2>2, <2>3, <1>2
<1>. QED
  BY <1>1, <1>5, <1>6, <1>7

-----------------------------------------------------------------------------
(* The tabs, and what a frame and the user's inputs leave of them *)

Mode == {"Normal", "Message", "Editor"}
TabShape ==
  [list : ListShape, unread : SUBSET Nat, observed : Nat, current : Nat, loaded : BOOLEAN,
   scroll : Int, focus : Pane, mode : Mode, text : BOOLEAN]

LEMMA PanesType == Pane = {"Navigation", "Trace", "Reader", "Composer"}
<1>1. Panes = <<"Navigation", "Trace", "Reader", "Composer">> /\ Len(Panes) = 4
  BY DEF Panes
<1>2. Pane = {Panes[i] : i \in 1 .. 4}
  BY <1>1 DEF Pane, ToSet
<1>3. 1 .. 4 = {1, 2, 3, 4}
  OBVIOUS
<1>. QED
  BY <1>1, <1>2, <1>3

\* A reader that was never given a message counts none as its own.
Blank(tab) == ~tab.loaded => tab.current = 0

LEMMA NewTabShape ==
  ASSUME NEW th \in ThreadShape
  PROVE  NewTab(th) \in TabShape /\ Blank(NewTab(th))
<1>1. PICK l : l = NewList(0, TRUE)
  OBVIOUS
<1>2. l \in ListShape
  BY <1>1 DEF NewList, ListShape
<1>3. th.trace \in Seq({"user", "agent"})
  BY DEF ThreadShape
<1>4. PICK n \in Nat : n = Len(th.trace)
  BY <1>3
<1>5. NewTab(th) = [list |-> l, unread |-> {}, observed |-> n, current |-> 0, loaded |-> FALSE,
                    scroll |-> 0, focus |-> "Navigation", mode |-> "Normal", text |-> FALSE]
  BY <1>1, <1>4 DEF NewTab
<1>. QED
  BY <1>2, <1>5, PanesType DEF TabShape, Mode, Blank

LEMMA SyncedShape ==
  ASSUME NEW tab \in TabShape, NEW th \in ThreadShape, NEW shown \in BOOLEAN,
         NEW s, s = Synced(tab, th, shown)
  PROVE  /\ s \in TabShape /\ s.observed = Len(th.trace) /\ s.mode = tab.mode
         /\ Blank(tab) => Blank(s)
         /\ s.unread = (tab.unread \cup NewMessages(tab, th)) \
                         IF shown THEN {Position(s.list)} ELSE {}
<1>1. th.trace \in Seq({"user", "agent"}) /\ tab.observed \in Nat /\ tab.list \in ListShape
      /\ tab.unread \subseteq Nat
  BY DEF ThreadShape, TabShape
<1>2. PICK n \in Nat : n = Len(th.trace)
  BY <1>1
<1>3. PICK l : l = [tab.list EXCEPT !.hi = n]
  OBVIOUS
<1>4. l \in ListShape
  BY <1>1, <1>3 DEF ListShape
<1>5. PICK u : u = (tab.unread \cup NewMessages(tab, th)) \ IF shown THEN {Position(l)} ELSE {}
  OBVIOUS
<1>6. u \in SUBSET Nat
  <2>1. NewMessages(tab, th) \subseteq Nat
    BY <1>1, <1>2 DEF NewMessages
  <2>. QED
    BY <2>1, <1>1, <1>5
<1>7. s = [tab EXCEPT !.list = l, !.observed = n, !.unread = u]
  BY <1>2, <1>3, <1>5 DEF Synced
<1>8. s \in TabShape /\ s.list = l /\ s.observed = n /\ s.unread = u /\ s.mode = tab.mode
  BY <1>4, <1>6, <1>7 DEF TabShape
<1>9. Blank(tab) => Blank(s)
  BY <1>7 DEF TabShape, Blank
<1>. QED
  BY <1>2, <1>5, <1>8, <1>9

\* The reader that a frame draws has the message the cursor is on.
LEMMA DrawnTabShape ==
  ASSUME NEW tab \in TabShape, NEW d, d = DrawnTab(tab)
  PROVE  /\ d \in TabShape /\ d.observed = tab.observed /\ d.unread = tab.unread
         /\ d.mode = tab.mode /\ Position(d.list) = Position(tab.list)
         /\ d.mode # "Editor" => d.current = Position(d.list)
         /\ Blank(tab) => Blank(d)
<1>1. tab.list \in ListShape /\ tab.mode \in Mode
  BY DEF TabShape
<1>2. ASSUME NEW e \in TabShape, NEW r, r = Reloaded(e)
      PROVE  /\ r \in TabShape /\ r.observed = e.observed /\ r.unread = e.unread
             /\ r.mode = e.mode /\ r.list = e.list /\ r.current = Position(e.list)
             /\ Blank(e) => Blank(r)
  <2>1. e.list \in ListShape
    BY DEF TabShape
  <2>2. PICK i \in Nat : i = Position(e.list)
    BY <2>1, PositionType
  <2>3. r = IF i = e.current THEN e ELSE [e EXCEPT !.current = i, !.loaded = TRUE, !.scroll = 0]
    BY <1>2, <2>2 DEF Reloaded
  <2>4. CASE i = e.current
    BY <2>2, <2>3, <2>4
  <2>5. CASE i # e.current
    <3>1. ASSUME NEW b \in BOOLEAN, NEW n \in Int,
                 NEW x, x = [e EXCEPT !.current = i, !.loaded = b, !.scroll = n]
          PROVE  /\ x \in TabShape /\ x.observed = e.observed /\ x.unread = e.unread
                 /\ x.mode = e.mode /\ x.list = e.list /\ x.current = i
      BY <3>1 DEF TabShape
    <3>2. r = [e EXCEPT !.current = i, !.loaded = TRUE, !.scroll = 0]
      BY <2>3, <2>5
    <3>3. TRUE \in BOOLEAN /\ 0 \in Int
      OBVIOUS
    <3>4. /\ r \in TabShape /\ r.observed = e.observed /\ r.unread = e.unread
          /\ r.mode = e.mode /\ r.list = e.list /\ r.current = i
      BY <3>1, <3>2, <3>3, Zenon
    <3>5. r.loaded = TRUE
      BY <3>2 DEF TabShape
    <3>. QED
      BY <2>2, <3>4, <3>5 DEF Blank
  <2>. QED
    BY <2>4, <2>5
<1>3. CASE tab.mode = "Normal"
  <2>1. Height \in Int
    BY TuiAssumption
  <2>2. PICK l : l = Drawn(tab.list, Height)
    OBVIOUS
  <2>3. l \in ListShape /\ Position(l) = Position(tab.list)
    BY <1>1, <2>1, <2>2, DrawnPosition
  <2>4. PICK e : e = [tab EXCEPT !.list = l]
    OBVIOUS
  <2>5. e \in TabShape /\ e.observed = tab.observed /\ e.unread = tab.unread
        /\ e.mode = tab.mode /\ e.list = l
    BY <2>3, <2>4 DEF TabShape
  <2>6. d = Reloaded(e)
    BY <1>3, <2>2, <2>4 DEF DrawnTab
  <2>7. Blank(tab) => Blank(e)
    BY <2>4 DEF TabShape, Blank
  <2>. QED
    BY <1>2, <2>3, <2>5, <2>6, <2>7
<1>4. CASE tab.mode = "Message"
  <2>1. d = Reloaded(tab)
    BY <1>4 DEF DrawnTab
  <2>. QED
    BY <1>2, <2>1
<1>5. CASE tab.mode = "Editor"
  <2>1. d = tab
    BY <1>5 DEF DrawnTab
  <2>. QED
    BY <1>5, <2>1
<1>. QED
  BY <1>1, <1>3, <1>4, <1>5 DEF Mode

\* What an input leaves of a tab.
Kept(tab, e) ==
  /\ e \in TabShape /\ e.observed = tab.observed /\ e.unread = tab.unread
  /\ e.current = tab.current /\ e.loaded = tab.loaded /\ (tab.scroll \in 0 .. 1 => e.scroll \in 0 .. 1)
  /\ LeavesPlaced(tab.list, e.list)

OneTabChanged == \E t \in Thread : \E e : Kept(tabs[t], e) /\ Leaves(e, t)
SomeSend == \E t \in Thread : \E toAsker \in BOOLEAN : Sends(t, toAsker)

LEMMA KeptChange ==
  ASSUME NEW tab \in TabShape
  PROVE  /\ \A l : LeavesPlaced(tab.list, l) => Kept(tab, [tab EXCEPT !.list = l])
         /\ \A n \in 0 .. 1 : Kept(tab, [tab EXCEPT !.scroll = n])
         /\ \A b \in BOOLEAN : Kept(tab, [tab EXCEPT !.text = b])
         /\ \A p \in Pane : Kept(tab, [tab EXCEPT !.focus = p])
         /\ \A p \in Pane : \A l : LeavesPlaced(tab.list, l) => Kept(tab, [tab EXCEPT !.focus = p, !.list = l])
         /\ \A m \in Mode : Kept(tab, [tab EXCEPT !.mode = m])
         /\ \A m \in Mode, p \in Pane : Kept(tab, [tab EXCEPT !.mode = m, !.focus = p])
<1>0. LeavesPlaced(tab.list, tab.list)
  BY DEF TabShape, LeavesPlaced
<1>1. ASSUME NEW l, LeavesPlaced(tab.list, l)  PROVE Kept(tab, [tab EXCEPT !.list = l])
  <2>1. l \in ListShape
    BY <1>1 DEF LeavesPlaced
  <2>. QED
    BY <1>1, <2>1 DEF Kept, TabShape
<1>2. ASSUME NEW n \in 0 .. 1  PROVE Kept(tab, [tab EXCEPT !.scroll = n])
  BY <1>0 DEF Kept, TabShape
<1>3. ASSUME NEW b \in BOOLEAN  PROVE Kept(tab, [tab EXCEPT !.text = b])
  BY <1>0 DEF Kept, TabShape
<1>4. ASSUME NEW p \in Pane  PROVE Kept(tab, [tab EXCEPT !.focus = p])
  BY <1>0 DEF Kept, TabShape
<1>5. ASSUME NEW p \in Pane, NEW l, LeavesPlaced(tab.list, l)
      PROVE  Kept(tab, [tab EXCEPT !.focus = p, !.list = l])
  <2>1. l \in ListShape
    BY <1>5 DEF LeavesPlaced
  <2>. QED
    BY <1>5, <2>1 DEF Kept, TabShape
<1>6. ASSUME NEW m \in Mode  PROVE Kept(tab, [tab EXCEPT !.mode = m])
  BY <1>0 DEF Kept, TabShape
<1>7. ASSUME NEW m \in Mode, NEW p \in Pane
      PROVE  Kept(tab, [tab EXCEPT !.mode = m, !.focus = p])
  BY <1>0 DEF Kept, TabShape
<1>. QED
  BY <1>1, <1>2, <1>3, <1>4, <1>5, <1>6, <1>7

\* An input changes one tab, if any, and what it has observed or counts as
\* unread in none; it sends a message, or nothing that is sent changes.
LEMMA UserStepKeeps ==
  ASSUME tabs \in Seq(TabShape), UserSteps
  PROVE  /\ Input
         /\ tabs' = tabs \/ OneTabChanged
         /\ UNCHANGED <<outgoing, sent, ended>> \/ SomeSend
<1>1. ASSUME NEW i, SelectTab(i)  PROVE Input /\ UNCHANGED <<tabs, outgoing, sent, ended>>
  BY <1>1 DEF SelectTab
<1>2. CASE LeaveBar
  BY <1>2 DEF LeaveBar
<1>3. ASSUME NEW key, ThreadListKey(key)  PROVE Input /\ UNCHANGED <<tabs, outgoing, sent, ended>>
  BY <1>3 DEF ThreadListKey
<1>4. ASSUME NEW t \in Thread
      PROVE  /\ tabs[t] \in TabShape /\ tabs[t].list \in ListShape
             /\ tabs[t].list.rows \subseteq Int
  <2>1. tabs[t] \in TabShape
    BY DEF Thread
  <2>. QED
    BY <2>1 DEF TabShape, ListShape
<1>5. ASSUME NEW t \in Thread, NEW key \in TraceKeys, TraceKey(t, key)
      PROVE  Input /\ OneTabChanged /\ UNCHANGED <<outgoing, sent, ended>>
  <2>1. key \in Keys
    BY TuiAssumption
  <2>2. PICK l : l = Pressed(tabs[t].list, key)
    OBVIOUS
  <2>3. LeavesPlaced(tabs[t].list, l)
    BY <2>1, <2>2, <1>4, PressedMoves
  <2>4. PICK e : e = [tabs[t] EXCEPT !.list = l]
    OBVIOUS
  <2>5. Leaves(e, t) /\ Input /\ UNCHANGED <<outgoing, sent, ended>>
    BY <1>5, <2>2, <2>4 DEF TraceKey, KeyFor
  <2>6. Kept(tabs[t], e)
    BY <2>3, <2>4, <1>4, KeptChange
  <2>. QED
    BY <2>5, <2>6 DEF OneTabChanged
<1>6. ASSUME NEW t \in Thread, ReaderKey(t)
      PROVE  Input /\ OneTabChanged /\ UNCHANGED <<outgoing, sent, ended>>
  <2>1. PICK n \in 0 .. 1 : Leaves([tabs[t] EXCEPT !.scroll = n], t)
    BY <1>6 DEF ReaderKey
  <2>2. Kept(tabs[t], [tabs[t] EXCEPT !.scroll = n])
    BY <1>4, KeptChange
  <2>3. Input /\ UNCHANGED <<outgoing, sent, ended>>
    BY <1>6 DEF ReaderKey, KeyFor
  <2>. QED
    BY <2>1, <2>2, <2>3 DEF OneTabChanged
<1>7. ASSUME NEW t \in Thread, Type(t)
      PROVE  Input /\ OneTabChanged /\ UNCHANGED <<outgoing, sent, ended>>
  <2>1. Kept(tabs[t], [tabs[t] EXCEPT !.text = TRUE])
    BY <1>4, KeptChange
  <2>2. Input /\ Leaves([tabs[t] EXCEPT !.text = TRUE], t) /\ UNCHANGED <<outgoing, sent, ended>>
    BY <1>7 DEF Type, KeyFor
  <2>. QED
    BY <2>1, <2>2 DEF OneTabChanged
<1>8. ASSUME NEW t \in Thread, NEW step \in {1, 3}, CyclePane(t, step)
      PROVE  Input /\ OneTabChanged /\ UNCHANGED <<outgoing, sent, ended>>
  <2>1. PICK n \in 1 .. 4 : /\ KeyFor(t, Panes[n])
                            /\ Leaves([tabs[t] EXCEPT !.focus = Panes[((n - 1 + step) % 4) + 1]], t)
    BY <1>8 DEF CyclePane
  <2>2. PICK p : p = Panes[((n - 1 + step) % 4) + 1]
    OBVIOUS
  <2>3. p \in Pane
    <3>1. ((n - 1 + step) % 4) + 1 \in 1 .. 4
      OBVIOUS
    <3>2. \A i \in 1 .. 4 : Panes[i] \in Pane
      BY PanesType DEF Panes
    <3>. QED
      BY <2>2, <3>1, <3>2
  <2>4. Kept(tabs[t], [tabs[t] EXCEPT !.focus = p])
    BY <2>3, <1>4, KeptChange
  <2>5. Input /\ UNCHANGED <<outgoing, sent, ended>>
    BY <1>8, <2>1 DEF CyclePane, KeyFor
  <2>. QED
    BY <2>1, <2>2, <2>4, <2>5 DEF OneTabChanged
<1>9. ASSUME NEW t \in Thread, NEW pane \in Pane, ClickPane(t, pane)
      PROVE  Input /\ OneTabChanged /\ UNCHANGED <<outgoing, sent, ended>>
  <2>1. Input /\ UNCHANGED <<outgoing, sent, ended>>
    BY <1>9 DEF ClickPane
  <2>2. CASE Leaves([tabs[t] EXCEPT !.focus = pane], t)
    <3>1. Kept(tabs[t], [tabs[t] EXCEPT !.focus = pane])
      BY <1>4, KeptChange
    <3>. QED
      BY <2>1, <2>2, <3>1 DEF OneTabChanged
  <2>3. CASE \E i \in tabs[t].list.rows :
               Leaves([tabs[t] EXCEPT !.focus = pane, !.list = Clicked(@, i)], t)
    <3>1. PICK i \in tabs[t].list.rows :
                 Leaves([tabs[t] EXCEPT !.focus = pane, !.list = Clicked(@, i)], t)
      BY <2>3
    <3>2. PICK l : l = Clicked(tabs[t].list, i)
      OBVIOUS
    <3>3. LeavesPlaced(tabs[t].list, l)
      BY <1>4, <3>2, ClickedMoves
    <3>4. PICK e : e = [tabs[t] EXCEPT !.focus = pane, !.list = l]
      OBVIOUS
    <3>5. Kept(tabs[t], e)
      BY <1>4, <3>3, <3>4, KeptChange
    <3>6. Leaves(e, t)
      BY <3>1, <3>2, <3>4
    <3>. QED
      BY <2>1, <3>5, <3>6 DEF OneTabChanged
  <2>. QED
    BY <1>9, <2>2, <2>3 DEF ClickPane
<1>10. ASSUME NEW t \in Thread, Maximize(t)
       PROVE  Input /\ OneTabChanged /\ UNCHANGED <<outgoing, sent, ended>>
  <2>1. Input /\ UNCHANGED <<outgoing, sent, ended>>
    BY <1>10 DEF Maximize
  <2>2. PICK edits \in BOOLEAN : edits = (tabs[t].focus = "Composer" /\ ~bar)
    OBVIOUS
  <2>3. CASE tabs[t].mode # "Normal"
    <3>1. Leaves([tabs[t] EXCEPT !.mode = "Normal"], t)
      BY <1>10, <2>3 DEF Maximize
    <3>2. Kept(tabs[t], [tabs[t] EXCEPT !.mode = "Normal"])
      BY <1>4, KeptChange DEF Mode
    <3>. QED
      BY <2>1, <3>1, <3>2 DEF OneTabChanged
  <2>4. CASE tabs[t].mode = "Normal"
    <3>1. PICK m, p : m = (IF edits THEN "Editor" ELSE "Message")
                      /\ p = IF edits THEN "Composer" ELSE "Reader"
      OBVIOUS
    <3>2. m \in Mode /\ p \in Pane
      BY <3>1, PanesType DEF Mode
    <3>3. Leaves([tabs[t] EXCEPT !.mode = m, !.focus = p], t)
      BY <1>10, <2>2, <2>4, <3>1 DEF Maximize
    <3>4. Kept(tabs[t], [tabs[t] EXCEPT !.mode = m, !.focus = p])
      BY <1>4, <3>2, KeptChange
    <3>. QED
      BY <2>1, <3>3, <3>4 DEF OneTabChanged
  <2>. QED
    BY <2>3, <2>4
<1>11. ASSUME NEW t \in Thread, NEW toAsker \in BOOLEAN, Sends(t, toAsker)
       PROVE  Input /\ OneTabChanged /\ SomeSend
  <2>1. Kept(tabs[t], [tabs[t] EXCEPT !.text = FALSE])
    BY <1>4, KeptChange
  <2>2. Input /\ Leaves([tabs[t] EXCEPT !.text = FALSE], t)
    BY <1>11 DEF Sends
  <2>. QED
    BY <1>11, <2>1, <2>2 DEF OneTabChanged, SomeSend
<1>12. ASSUME NEW t \in Thread, NEW toAsker \in BOOLEAN,
              SendButton(t, toAsker) \/ SendKey(t, toAsker)
       PROVE  Sends(t, toAsker)
  BY <1>12 DEF SendButton, SendKey
<1>13. CASE \E i \in 0 .. Len(tabs) + 1 : SelectTab(i)
  BY <1>1, <1>13
<1>14. CASE \E key \in TraceKeys : ThreadListKey(key) \/ \E t \in Thread : TraceKey(t, key)
  BY <1>3, <1>5, <1>14
<1>15. CASE \E t \in Thread :
              \/ ReaderKey(t) \/ Type(t) \/ Maximize(t)
              \/ \E step \in {1, 3} : CyclePane(t, step)
              \/ \E pane \in Pane : ClickPane(t, pane)
              \/ \E toAsker \in BOOLEAN : SendButton(t, toAsker) \/ SendKey(t, toAsker)
  BY <1>6, <1>7, <1>8, <1>9, <1>10, <1>11, <1>12, <1>15
<1>. QED
  BY <1>2, <1>13, <1>14, <1>15 DEF UserSteps

-----------------------------------------------------------------------------
(* The invariant *)

Message == [reply : Nat, toAsker : BOOLEAN, again : BOOLEAN]

\* What the observer has yet to apply is what it lacks of the runtime's threads.
ThreadsMirrored ==
  /\ actual \in Seq(ThreadShape) /\ mirrored \in Seq(ThreadShape) /\ feed \in Seq(AppliedRecord)
  /\ Processed(mirrored, feed) = actual

\* Tabs are opened for threads the observer has, and know all of each.
TabsObserve ==
  /\ tabs \in Seq(TabShape) /\ Len(tabs) <= Len(mirrored)
  /\ \A t \in Thread : tabs[t].observed = Len(mirrored[t].trace) /\ Blank(tabs[t])

\* Of one thread a of the runtime, where the user sent s messages and o is the
\* one that is under way: if none of them is left, an answer to it is due.
Arrives(a, o, s) == UserSum(a) <= s /\ (o # <<>> /\ UserSum(a) = s => a.due)

\* Of its mirror m: with no answer due, it is the thread itself unless a message
\* of the user's is missing in it.
Reflects(m, a, o, s) ==
  /\ UserSum(m) <= UserSum(a)
  /\ ~m.due /\ UserSum(m) = UserSum(a) => m = a
  /\ o # <<>> /\ UserSum(m) = s => m.due

\* The message that is under way is the answer it should be.
Fits(a, o) ==
  o # <<>> /\ ~a.due /\ ~o[1].again =>
    o[1].reply = IF o[1].toAsker /\ Asked(a) THEN Last(a.frames).id ELSE 0

MessagesArrive ==
  /\ outgoing \in Seq(Seq(Message)) /\ sent \in Seq(Nat)
  /\ Len(outgoing) = Len(actual) /\ Len(sent) = Len(actual) /\ Len(mirrored) <= Len(actual)
  /\ \A t \in 1 .. Len(actual) : Arrives(actual[t], outgoing[t], sent[t]) /\ Fits(actual[t], outgoing[t])
  /\ \A t \in 1 .. Len(mirrored) : Reflects(mirrored[t], actual[t], outgoing[t], sent[t])
  /\ ended # "sent"

TInv == ThreadsMirrored /\ TabsObserve /\ ReaderShowsSelection /\ MessagesArrive

\* Only its messages come to a thread that another record is of.
LEMMA AppliedLength ==
  ASSUME NEW ths \in Seq(ThreadShape), NEW r \in AppliedRecord,
         NEW a, a = Applied(ths, r)
  PROVE  /\ Len(a) = IF r.op = "thread" THEN Len(ths) + 1 ELSE Len(ths)
         /\ \A t \in 1 .. Len(ths) :
              a[t] = IF r.op # "thread" /\ t = r.thread THEN ApplyTo(ths[t], r.op) ELSE ths[t]
         /\ r.op = "thread" => a[Len(ths) + 1] = NewThread
<1>1. CASE r.op = "thread"
  BY <1>1, NewThreadType DEF Applied
<1>2. CASE r.op # "thread"
  <2>1. PICK e : e = ApplyTo(ths[r.thread], r.op)
    OBVIOUS
  <2>2. a = [ths EXCEPT ![r.thread] = e]
    BY <2>1, <1>2 DEF Applied
  <2>. QED
    BY <1>2, <2>1, <2>2
<1>. QED
  BY <1>1, <1>2

\* A record is consumed: the runtime's threads change, and the feed tells.
LEMMA ConsumedKeeps ==
  ASSUME ThreadsMirrored, NEW r \in AppliedRecord, Consumed(r), mirrored' = mirrored
  PROVE  ThreadsMirrored'
<1>1. actual' = Applied(actual, r) /\ feed' = Append(feed, r)
  BY DEF Consumed
<1>2. actual' \in Seq(ThreadShape)
  BY <1>1, AppliedType DEF ThreadsMirrored
<1>3. feed' \in Seq(AppliedRecord)
  BY <1>1 DEF ThreadsMirrored
<1>4. Processed(mirrored, feed') = Applied(Processed(mirrored, feed), r)
  BY <1>1, ProcessedNext DEF ThreadsMirrored
<1>. QED
  BY <1>1, <1>2, <1>3, <1>4 DEF ThreadsMirrored

\* Nothing that a tab shows changes.
LEMMA TabsUndisturbed ==
  ASSUME TabsObserve, drawn' = FALSE, mirrored' = mirrored, tabs' = tabs \/ OneTabChanged
  PROVE  /\ TabsObserve' /\ ReaderShowsSelection' /\ Len(tabs') = Len(tabs)
         /\ \A t \in Thread : tabs'[t].unread = tabs[t].unread
<1>1. ReaderShowsSelection'
  BY DEF ReaderShowsSelection
<1>2. CASE tabs' = tabs
  BY <1>1, <1>2 DEF TabsObserve, Thread
<1>3. CASE OneTabChanged
  <2>1. PICK t \in Thread : \E e : Kept(tabs[t], e) /\ Leaves(e, t)
    BY <1>3 DEF OneTabChanged
  <2>0. PICK e : Kept(tabs[t], e) /\ Leaves(e, t)
    BY <2>1
  <2>2. tabs' = [tabs EXCEPT ![t] = e] /\ e \in TabShape
    BY <2>0 DEF Leaves, Kept
  <2>3. tabs' \in Seq(TabShape) /\ Len(tabs') = Len(tabs) /\ tabs'[t] = e
        /\ \A u \in 1 .. Len(tabs) : u # t => tabs'[u] = tabs[u]
    BY <2>2 DEF TabsObserve, Thread
  <2>4. e.observed = tabs[t].observed /\ e.unread = tabs[t].unread
    BY <2>0 DEF Kept
  <2>5. \A u \in Thread : tabs'[u].observed = tabs[u].observed /\ tabs'[u].unread = tabs[u].unread
    BY <2>3, <2>4 DEF Thread
  <2>6. Blank(tabs[t]) => Blank(e)
    BY <2>0 DEF Kept, Blank
  <2>7. \A u \in Thread : Blank(tabs'[u])
    BY <2>3, <2>6 DEF TabsObserve, Thread
  <2>. QED
    BY <1>1, <2>3, <2>5, <2>7 DEF TabsObserve, Thread
<1>. QED
  BY <1>2, <1>3

-----------------------------------------------------------------------------
(* The runtime's steps *)

\* The user's message comes to a thread where no answer was due.
LEMMA DeliveredThread ==
  ASSUME NEW a \in ThreadShape, NEW o, NEW s \in Nat, Arrives(a, o, s), o # <<>>, ~a.due,
         NEW op \in {"call", "answer"}, NEW b, b = ApplyTo(a, op)
  PROVE  /\ Arrives(b, o, s) /\ Fits(b, o)
         /\ \A m \in ThreadShape : Reflects(m, a, o, s) => Reflects(m, b, o, s)
<1>1. b \in ThreadShape /\ UserSum(b) = UserSum(a) + 1 /\ b.due = TRUE /\ UserSum(a) \in Nat
  BY ApplyToType, UserSumType
<1>2. Arrives(b, o, s) /\ Fits(b, o)
  BY <1>1 DEF Arrives, Fits
<1>3. ASSUME NEW m \in ThreadShape, Reflects(m, a, o, s)  PROVE Reflects(m, b, o, s)
  <2>1. UserSum(m) \in Nat
    BY UserSumType
  <2>. QED
    BY <1>1, <1>3, <2>1 DEF Reflects
<1>. QED
  BY <1>2, <1>3

\* An agent's message comes to a thread where an answer was due: one that is for
\* the user ends his message's way.
LEMMA WorkedThread ==
  ASSUME NEW a \in ThreadShape, NEW o, NEW s \in Nat, Arrives(a, o, s), a.due,
         NEW op \in {"work", "ask", "return"}, NEW b, b = ApplyTo(a, op),
         NEW q, q = IF op = "work" THEN o ELSE <<>>
  PROVE  /\ Arrives(b, q, s) /\ Fits(b, q)
         /\ \A m \in ThreadShape : Reflects(m, a, o, s) => Reflects(m, b, q, s)
<1>1. b \in ThreadShape /\ UserSum(b) = UserSum(a) /\ b.due = (op = "work") /\ UserSum(a) \in Nat
  BY ApplyToType, UserSumType
<1>2. Arrives(b, q, s) /\ Fits(b, q)
  BY <1>1 DEF Arrives, Fits
<1>3. ASSUME NEW m \in ThreadShape, Reflects(m, a, o, s)  PROVE Reflects(m, b, q, s)
  <2>1. UserSum(m) \in Nat
    BY UserSumType
  <2>. QED
    BY <1>1, <1>3, <2>1 DEF Reflects
<1>. QED
  BY <1>2, <1>3

LEMMA MessageKeeps ==
  ASSUME TInv, NEW t \in 1 .. Len(actual), NEW op \in {"call", "answer", "work", "ask", "return"},
         Consumed([op |-> op, thread |-> t]), UNCHANGED <<mirrored, tabs, sent, ended>>,
         NEW b, b = ApplyTo(actual[t], op), NEW q \in Seq(Message),
         outgoing' = [outgoing EXCEPT ![t] = q],
         Arrives(b, q, sent[t]), Fits(b, q),
         \A m \in ThreadShape :
           Reflects(m, actual[t], outgoing[t], sent[t]) => Reflects(m, b, q, sent[t])
  PROVE  TInv'
<1>1. PICK r : r = [op |-> op, thread |-> t]
  OBVIOUS
<1>2. r.op = op /\ r.thread = t /\ r \in AppliedRecord
  <2>1. t \in Nat
    BY DEF TInv, ThreadsMirrored
  <2>. QED
    BY <1>1, <2>1 DEF AppliedRecord
<1>3. Consumed(r)
  BY <1>1
<1>4. ThreadsMirrored' /\ actual' = Applied(actual, r) /\ drawn' = FALSE
  BY <1>2, <1>3, ConsumedKeeps DEF TInv, Consumed
<1>5. TabsObserve' /\ ReaderShowsSelection'
  BY <1>4, TabsUndisturbed DEF TInv
<1>6. Len(actual') = Len(actual) /\ actual'[t] = b
      /\ \A u \in 1 .. Len(actual) : u # t => actual'[u] = actual[u]
  BY <1>2, <1>4, AppliedLength DEF TInv, ThreadsMirrored
<1>7. /\ outgoing' \in Seq(Seq(Message)) /\ Len(outgoing') = Len(outgoing)
      /\ outgoing'[t] = q /\ \A u \in 1 .. Len(actual) : u # t => outgoing'[u] = outgoing[u]
  BY DEF TInv, MessagesArrive
<1>8. ASSUME NEW u \in 1 .. Len(actual)
      PROVE  Arrives(actual'[u], outgoing'[u], sent[u]) /\ Fits(actual'[u], outgoing'[u])
  <2>1. CASE u = t
    BY <1>6, <1>7, <2>1
  <2>2. CASE u # t
    BY <1>6, <1>7, <2>2 DEF TInv, MessagesArrive
  <2>. QED
    BY <2>1, <2>2
<1>9. ASSUME NEW u \in 1 .. Len(mirrored)
      PROVE  Reflects(mirrored[u], actual'[u], outgoing'[u], sent[u])
  <2>1. u \in 1 .. Len(actual) /\ mirrored[u] \in ThreadShape
        /\ Reflects(mirrored[u], actual[u], outgoing[u], sent[u])
    BY DEF TInv, MessagesArrive, ThreadsMirrored
  <2>2. CASE u = t
    BY <1>6, <1>7, <2>1, <2>2
  <2>3. CASE u # t
    BY <1>6, <1>7, <2>1, <2>3
  <2>. QED
    BY <2>2, <2>3
<1>10. MessagesArrive'
  <2>1. mirrored' = mirrored /\ sent' = sent /\ ended' = ended
    OBVIOUS
  <2>2. /\ sent \in Seq(Nat) /\ Len(outgoing) = Len(actual) /\ Len(sent) = Len(actual)
        /\ Len(mirrored) <= Len(actual) /\ ended # "sent"
    BY DEF TInv, MessagesArrive
  <2>. QED
    BY <1>6, <1>7, <1>8, <1>9, <2>1, <2>2 DEF MessagesArrive
<1>. QED
  BY <1>4, <1>5, <1>10 DEF TInv

LEMMA ThreadCreatedKeeps ==
  ASSUME TInv, ThreadCreated
  PROVE  TInv'
<1>. DEFINE n == Len(actual)
<1>1. PICK r : r = [op |-> "thread", thread |-> n + 1]
  OBVIOUS
<1>2. n \in Nat /\ r.op = "thread" /\ r \in AppliedRecord
  BY <1>1 DEF TInv, ThreadsMirrored, AppliedRecord
<1>3. /\ Consumed(r) /\ outgoing' = Append(outgoing, <<>>) /\ sent' = Append(sent, 0)
      /\ mirrored' = mirrored /\ tabs' = tabs /\ ended' = ended
  BY <1>1 DEF ThreadCreated, screen
<1>4. ThreadsMirrored' /\ actual' = Applied(actual, r) /\ drawn' = FALSE
  BY <1>2, <1>3, ConsumedKeeps DEF TInv, Consumed
<1>5. TabsObserve' /\ ReaderShowsSelection'
  BY <1>3, <1>4, TabsUndisturbed DEF TInv
<1>6. Len(actual') = n + 1 /\ actual'[n + 1] = NewThread
      /\ \A u \in 1 .. n : actual'[u] = actual[u]
  BY <1>2, <1>4, AppliedLength DEF TInv, ThreadsMirrored
<1>7. /\ outgoing \in Seq(Seq(Message)) /\ sent \in Seq(Nat) /\ Len(outgoing) = n /\ Len(sent) = n
      /\ Len(mirrored) <= n /\ ended # "sent"
  BY DEF TInv, MessagesArrive
<1>8. /\ outgoing' \in Seq(Seq(Message)) /\ Len(outgoing') = n + 1 /\ outgoing'[n + 1] = <<>>
      /\ \A u \in 1 .. n : outgoing'[u] = outgoing[u]
  <2>1. PICK e \in Seq(Message) : e = <<>>
    BY EmptySeq
  <2>2. outgoing' = Append(outgoing, e)
    BY <1>3, <2>1
  <2>3. /\ outgoing' \in Seq(Seq(Message)) /\ Len(outgoing') = n + 1 /\ outgoing'[n + 1] = e
        /\ \A u \in 1 .. n : outgoing'[u] = outgoing[u]
    BY <1>7, <2>2
  <2>. QED
    BY <2>1, <2>3
<1>9. /\ sent' \in Seq(Nat) /\ Len(sent') = n + 1 /\ sent'[n + 1] = 0
      /\ \A u \in 1 .. n : sent'[u] = sent[u]
  BY <1>3, <1>7
<1>10. ASSUME NEW u \in 1 .. n + 1
       PROVE  Arrives(actual'[u], outgoing'[u], sent'[u]) /\ Fits(actual'[u], outgoing'[u])
  <2>1. CASE u = n + 1
    BY <1>6, <1>8, <1>9, <2>1, NewThreadType DEF Arrives, Fits
  <2>2. CASE u # n + 1
    <3>1. u \in 1 .. n
      BY <1>2, <2>2
    <3>. QED
      BY <1>6, <1>8, <1>9, <3>1 DEF TInv, MessagesArrive
  <2>. QED
    BY <2>1, <2>2
<1>11. ASSUME NEW u \in 1 .. Len(mirrored)
       PROVE  Reflects(mirrored[u], actual'[u], outgoing'[u], sent'[u])
  <2>1. u \in 1 .. n /\ Reflects(mirrored[u], actual[u], outgoing[u], sent[u])
    BY <1>2, <1>7 DEF TInv, MessagesArrive, ThreadsMirrored
  <2>. QED
    BY <1>6, <1>8, <1>9, <2>1
<1>12. MessagesArrive'
  <2>1. Len(mirrored') <= n + 1
    BY <1>2, <1>3, <1>7 DEF TInv, ThreadsMirrored
  <2>. QED
    BY <1>3, <1>6, <1>7, <1>8, <1>9, <1>10, <1>11, <2>1 DEF MessagesArrive
<1>. QED
  BY <1>4, <1>5, <1>12 DEF TInv

LEMMA RuntimeKeeps ==
  ASSUME TInv, RuntimeSteps
  PROVE  TInv' /\ mirrored' = mirrored /\ tabs' = tabs
<1>1. ASSUME NEW t \in 1 .. Len(actual)
      PROVE  /\ actual[t] \in ThreadShape /\ outgoing[t] \in Seq(Message) /\ sent[t] \in Nat
             /\ Arrives(actual[t], outgoing[t], sent[t])
             /\ outgoing = [outgoing EXCEPT ![t] = outgoing[t]]
  BY DEF TInv, ThreadsMirrored, MessagesArrive
<1>2. ASSUME NEW t \in 1 .. Len(actual), Delivered(t)
      PROVE  TInv' /\ mirrored' = mirrored /\ tabs' = tabs
  <2>1. PICK op \in {"call", "answer"} : op = IF outgoing[t][1].reply = 0 THEN "call" ELSE "answer"
    OBVIOUS
  <2>2. /\ outgoing[t] # <<>> /\ ~actual[t].due /\ Consumed([op |-> op, thread |-> t])
        /\ UNCHANGED <<mirrored, outgoing, tabs, sent, ended>>
    BY <1>2, <2>1 DEF Delivered, screen
  <2>3. PICK b : b = ApplyTo(actual[t], op)
    OBVIOUS
  <2>4. /\ Arrives(b, outgoing[t], sent[t]) /\ Fits(b, outgoing[t])
        /\ \A m \in ThreadShape :
             Reflects(m, actual[t], outgoing[t], sent[t]) => Reflects(m, b, outgoing[t], sent[t])
    BY <1>1, <2>2, <2>3, DeliveredThread
  <2>5. outgoing' = [outgoing EXCEPT ![t] = outgoing[t]]
    BY <1>1, <2>2
  <2>. QED
    BY <1>1, <2>2, <2>3, <2>4, <2>5, MessageKeeps
<1>3. ASSUME NEW t \in 1 .. Len(actual), NEW op \in {"work", "ask", "return"},
             actual[t].due, Consumed([op |-> op, thread |-> t]),
             outgoing' = [outgoing EXCEPT ![t] = IF op = "work" THEN outgoing[t] ELSE <<>>],
             UNCHANGED <<mirrored, tabs, sent, ended>>
      PROVE  TInv' /\ mirrored' = mirrored /\ tabs' = tabs
  <2>0. <<>> \in Seq(Message) /\ outgoing[t] \in Seq(Message)
    BY <1>1, EmptySeq
  <2>1. PICK q \in Seq(Message) : q = IF op = "work" THEN outgoing[t] ELSE <<>>
    BY <2>0
  <2>2. PICK b : b = ApplyTo(actual[t], op)
    OBVIOUS
  <2>3. /\ Arrives(b, q, sent[t]) /\ Fits(b, q)
        /\ \A m \in ThreadShape :
             Reflects(m, actual[t], outgoing[t], sent[t]) => Reflects(m, b, q, sent[t])
    BY <1>1, <1>3, <2>1, <2>2, WorkedThread
  <2>4. outgoing' = [outgoing EXCEPT ![t] = q]
    BY <1>3, <2>1
  <2>. QED
    BY <1>3, <2>2, <2>3, <2>4, MessageKeeps
<1>4. ASSUME NEW t \in 1 .. Len(actual), AgentWorks(t)
      PROVE  TInv' /\ mirrored' = mirrored /\ tabs' = tabs
  <2>1. /\ actual[t].due /\ Consumed([op |-> "work", thread |-> t])
        /\ UNCHANGED <<mirrored, outgoing, tabs, sent, ended>>
    BY <1>4 DEF AgentWorks, Working, screen
  <2>2. outgoing' = [outgoing EXCEPT ![t] = IF "work" = "work" THEN outgoing[t] ELSE <<>>]
    BY <1>1, <2>1
  <2>. QED
    BY <1>3, <2>1, <2>2
<1>5. ASSUME NEW t \in 1 .. Len(actual), UserHears(t)
      PROVE  TInv' /\ mirrored' = mirrored /\ tabs' = tabs
  <2>1. PICK op \in {"ask", "return"} : Consumed([op |-> op, thread |-> t])
    BY <1>5 DEF UserHears
  <2>2. /\ actual[t].due /\ outgoing' = [outgoing EXCEPT ![t] = <<>>]
        /\ UNCHANGED <<mirrored, tabs, sent, ended>>
    BY <1>5 DEF UserHears, Working, screen
  <2>3. outgoing' = [outgoing EXCEPT ![t] = IF op = "work" THEN outgoing[t] ELSE <<>>]
    BY <2>2
  <2>. QED
    BY <1>3, <2>1, <2>2, <2>3
<1>6. CASE ThreadCreated
  BY <1>6, ThreadCreatedKeeps DEF ThreadCreated, screen
<1>. QED
  BY <1>2, <1>4, <1>5, <1>6 DEF RuntimeSteps

-----------------------------------------------------------------------------
(* The user sends a message *)

\* What his message is taken for, where it is sent with no answer due.
LEMMA SentThread ==
  ASSUME NEW a \in ThreadShape, NEW m \in ThreadShape, NEW s \in Nat, NEW again \in BOOLEAN,
         Arrives(a, <<>>, s), Reflects(m, a, <<>>, s), ~m.due, again <=> UserSum(m) < s,
         NEW o, o # <<>>, o[1].again = again,
         o[1].reply = IF o[1].toAsker /\ Asked(m) THEN Last(m.frames).id ELSE 0
  PROVE  Arrives(a, o, s + 1) /\ Fits(a, o) /\ Reflects(m, a, o, s + 1)
<1>1. UserSum(a) \in Nat /\ UserSum(m) \in Nat /\ UserSum(a) <= s /\ UserSum(m) <= UserSum(a)
  BY UserSumType DEF Arrives, Reflects
<1>2. ~again => m = a
  BY <1>1 DEF Reflects
<1>3. Fits(a, o)
  BY <1>2 DEF Fits
<1>4. Arrives(a, o, s + 1) /\ Reflects(m, a, o, s + 1)
  BY <1>1 DEF Arrives, Reflects
<1>. QED
  BY <1>3, <1>4

\* Where one is under way and no answer due, the observer does not show it yet.
LEMMA SentAgainThread ==
  ASSUME NEW a \in ThreadShape, NEW m \in ThreadShape, NEW s \in Nat,
         NEW o, o # <<>>, Arrives(a, o, s), Reflects(m, a, o, s), ~m.due
  PROVE  UserSum(m) < s /\ Arrives(a, o, s + 1) /\ Reflects(m, a, o, s + 1)
<1>1. UserSum(a) \in Nat /\ UserSum(m) \in Nat /\ UserSum(a) <= s /\ UserSum(m) <= UserSum(a)
  BY UserSumType DEF Arrives, Reflects
<1>2. UserSum(m) < s
  BY <1>1 DEF Reflects
<1>. QED
  BY <1>1, <1>2 DEF Arrives, Reflects

LEMMA ReplyType ==
  ASSUME TInv, NEW t \in 1 .. Len(mirrored), NEW toAsker \in BOOLEAN
  PROVE  Reply(t, toAsker) \in Nat
<1>1. PICK f : f = mirrored[t].frames
  OBVIOUS
<1>2. f \in Seq([to : {"user", "agent"}, id : Nat])
  <2>1. mirrored[t] \in ThreadShape
    BY DEF TInv, ThreadsMirrored
  <2>. QED
    BY <1>1, <2>1 DEF ThreadShape
<1>3. CASE toAsker /\ Asked(mirrored[t])
  <2>1. f # <<>>
    BY <1>1, <1>3 DEF Asked
  <2>2. Last(f) \in [to : {"user", "agent"}, id : Nat]
    BY <1>2, <2>1, LastType
  <2>3. Last(f).id \in Nat
    BY <2>2
  <2>. QED
    BY <1>1, <1>3, <2>3 DEF Reply
<1>4. CASE ~(toAsker /\ Asked(mirrored[t]))
  BY <1>4 DEF Reply
<1>. QED
  BY <1>3, <1>4

LEMMA SendsKeeps ==
  ASSUME TInv, NEW t \in Thread, NEW toAsker \in BOOLEAN, Sends(t, toAsker)
  PROVE  MessagesArrive'
<1>1. /\ actual' = actual /\ mirrored' = mirrored /\ ~mirrored[t].due
      /\ sent' = [sent EXCEPT ![t] = @ + 1]
  BY DEF Sends, Due, Input, world
<1>2. t \in 1 .. Len(mirrored) /\ t \in 1 .. Len(actual)
  <2>1. Len(tabs) \in Nat /\ Len(mirrored) \in Nat /\ Len(actual) \in Nat
        /\ Len(tabs) <= Len(mirrored) /\ Len(mirrored) <= Len(actual)
    BY DEF TInv, TabsObserve, ThreadsMirrored, MessagesArrive
  <2>. QED
    BY <2>1 DEF Thread
<1>3. PICK a, m, o, s : a = actual[t] /\ m = mirrored[t] /\ o = outgoing[t] /\ s = sent[t]
  OBVIOUS
<1>4. /\ a \in ThreadShape /\ m \in ThreadShape /\ o \in Seq(Message) /\ s \in Nat
      /\ Arrives(a, o, s) /\ Reflects(m, a, o, s) /\ Fits(a, o)
  BY <1>2, <1>3 DEF TInv, ThreadsMirrored, MessagesArrive
<1>5. /\ outgoing \in Seq(Seq(Message)) /\ sent \in Seq(Nat)
      /\ Len(outgoing) = Len(actual) /\ Len(sent) = Len(actual) /\ Len(mirrored) <= Len(actual)
      /\ ended # "sent"
  BY DEF TInv, MessagesArrive
<1>6. PICK q : q = outgoing'[t]
  OBVIOUS
<1>7. PICK again \in BOOLEAN : again <=> Behind(t)
  OBVIOUS
<1>8. (again <=> UserSum(m) < s) /\ again = Behind(t)
  BY <1>3, <1>7 DEF Behind, UserSum
<1>9. /\ outgoing' \in Seq(Seq(Message)) /\ Len(outgoing') = Len(outgoing)
      /\ \A u \in 1 .. Len(actual) : u # t => outgoing'[u] = outgoing[u]
      /\ Arrives(a, q, s + 1) /\ Reflects(m, a, q, s + 1) /\ Fits(a, q) /\ ended' # "sent"
  <2>1. CASE o # <<>>
    <3>1. again /\ Arrives(a, o, s + 1) /\ Reflects(m, a, o, s + 1)
      BY <1>1, <1>3, <1>4, <1>8, <2>1, SentAgainThread
    <3>2. outgoing' = outgoing /\ ended' = "sent_again"
      BY <1>3, <1>8, <2>1, <3>1 DEF Sends
    <3>. QED
      BY <1>3, <1>4, <1>5, <1>6, <3>1, <3>2
  <2>2. CASE o = <<>>
    <3>1. PICK r \in Nat : r = Reply(t, toAsker)
      BY <1>2, ReplyType
    <3>2. PICK x \in Message : x = [reply |-> r, toAsker |-> toAsker, again |-> again]
      BY DEF Message
    <3>0. <<x>> \in Seq(Message)
      OBVIOUS
    <3>3. PICK n \in Seq(Message) : n = <<x>>
      BY <3>0
    <3>4. outgoing' = [outgoing EXCEPT ![t] = n] /\ ended' = ended
      BY <1>3, <1>8, <2>2, <3>1, <3>2, <3>3 DEF Sends
    <3>5. /\ outgoing' \in Seq(Seq(Message)) /\ Len(outgoing') = Len(outgoing) /\ q = n
          /\ \A u \in 1 .. Len(actual) : u # t => outgoing'[u] = outgoing[u]
      BY <1>2, <1>5, <1>6, <3>4
    <3>6. n # <<>> /\ n[1] = x
      BY <3>3
    <3>7. /\ n[1].again = again /\ n[1].toAsker = toAsker /\ n[1].reply = r
      BY <3>2, <3>6
    <3>8. r = IF n[1].toAsker /\ Asked(m) THEN Last(m.frames).id ELSE 0
      BY <1>3, <3>1, <3>7 DEF Reply
    <3>9. Arrives(a, n, s + 1) /\ Fits(a, n) /\ Reflects(m, a, n, s + 1)
      BY <1>1, <1>3, <1>4, <1>8, <2>2, <3>6, <3>7, <3>8, SentThread
    <3>. QED
      BY <1>5, <3>4, <3>5, <3>9
  <2>. QED
    BY <2>1, <2>2
<1>10. /\ sent' \in Seq(Nat) /\ Len(sent') = Len(sent) /\ sent'[t] = s + 1
       /\ \A u \in 1 .. Len(actual) : u # t => sent'[u] = sent[u]
  BY <1>1, <1>2, <1>3, <1>4, <1>5
<1>11. ASSUME NEW u \in 1 .. Len(actual)
       PROVE  Arrives(actual[u], outgoing'[u], sent'[u]) /\ Fits(actual[u], outgoing'[u])
  <2>1. CASE u = t
    BY <1>3, <1>6, <1>9, <1>10, <2>1
  <2>2. CASE u # t
    BY <1>9, <1>10, <2>2 DEF TInv, MessagesArrive
  <2>. QED
    BY <2>1, <2>2
<1>12. ASSUME NEW u \in 1 .. Len(mirrored)
       PROVE  Reflects(mirrored[u], actual[u], outgoing'[u], sent'[u])
  <2>1. CASE u = t
    BY <1>3, <1>6, <1>9, <1>10, <2>1
  <2>2. CASE u # t
    <3>1. u \in 1 .. Len(actual) /\ Reflects(mirrored[u], actual[u], outgoing[u], sent[u])
      BY DEF TInv, MessagesArrive, ThreadsMirrored
    <3>. QED
      BY <1>9, <1>10, <2>2, <3>1
  <2>. QED
    BY <2>1, <2>2
<1>. QED
  BY <1>1, <1>5, <1>9, <1>10, <1>11, <1>12 DEF MessagesArrive

\* An input that sends nothing.
LEMMA NothingSentKeeps ==
  ASSUME TInv, UNCHANGED <<actual, mirrored, outgoing, sent, ended>>
  PROVE  MessagesArrive'
BY DEF TInv, MessagesArrive

LEMMA InputKeeps ==
  ASSUME TInv, UserSteps
  PROVE  /\ TInv' /\ mirrored' = mirrored
         /\ \A t \in Thread : tabs'[t].unread = tabs[t].unread
<1>1. /\ Input /\ (tabs' = tabs \/ OneTabChanged)
      /\ UNCHANGED <<outgoing, sent, ended>> \/ SomeSend
  BY UserStepKeeps DEF TInv, TabsObserve
<1>2. drawn' = FALSE /\ actual' = actual /\ feed' = feed /\ mirrored' = mirrored
  BY <1>1 DEF Input, world
<1>3. /\ TabsObserve' /\ ReaderShowsSelection'
      /\ \A t \in Thread : tabs'[t].unread = tabs[t].unread
  BY <1>1, <1>2, TabsUndisturbed DEF TInv
<1>4. ThreadsMirrored'
  BY <1>2 DEF TInv, ThreadsMirrored
<1>5. MessagesArrive'
  BY <1>1, <1>2, SendsKeeps, NothingSentKeeps DEF SomeSend
<1>. QED
  BY <1>2, <1>3, <1>4, <1>5 DEF TInv

-----------------------------------------------------------------------------
(* A frame *)

\* What a frame makes of the tab of thread t, and of the messages that were not
\* read in it.
LEMMA FrameTab ==
  ASSUME TInv, Frame, NEW t \in 1 .. Len(actual)
  PROVE  /\ tabs'[t] \in TabShape /\ tabs'[t].observed = Len(actual[t].trace)
         /\ Blank(tabs'[t])
         /\ Shown(t) /\ tabs'[t].mode # "Editor" =>
              /\ tabs'[t].current = Position(tabs'[t].list)
              /\ tabs'[t].current \notin tabs'[t].unread
         /\ t \in Thread =>
              \A i \in tabs[t].unread \cup NewMessages(tabs[t], actual[t]) :
                i \notin tabs'[t].unread =>
                  Shown(t) /\ (tabs'[t].current = i \/ tabs'[t].mode = "Editor")
<1>1. actual[t] \in ThreadShape
  BY DEF TInv, ThreadsMirrored
<1>2. PICK tab : tab = IF t \in Thread THEN tabs[t] ELSE NewTab(actual[t])
  OBVIOUS
<1>3. tab \in TabShape /\ Blank(tab)
  <2>1. CASE t \in Thread
    <3>1. tabs[t] \in TabShape /\ Blank(tabs[t])
      BY <2>1 DEF TInv, TabsObserve, Thread
    <3>. QED
      BY <1>2, <2>1, <3>1
  <2>2. CASE t \notin Thread
    BY <1>1, <1>2, <2>2, NewTabShape
  <2>. QED
    BY <2>1, <2>2
<1>4. PICK shown \in BOOLEAN : shown = Shown(t)
  BY DEF Shown
<1>5. PICK s : s = Synced(tab, actual[t], shown)
  OBVIOUS
<1>6. /\ s \in TabShape /\ s.observed = Len(actual[t].trace) /\ s.mode = tab.mode
      /\ Blank(s)
      /\ s.unread = (tab.unread \cup NewMessages(tab, actual[t])) \
                      IF shown THEN {Position(s.list)} ELSE {}
  BY <1>1, <1>3, <1>5, SyncedShape
<1>7. tabs'[t] = IF shown THEN DrawnTab(s) ELSE s
  BY <1>2, <1>4, <1>5 DEF Frame, SyncedTabs, TInv, ThreadsMirrored
<1>8. CASE ~shown
  <2>1. tabs'[t] = s
    BY <1>7, <1>8
  <2>2. t \in Thread => tab = tabs[t]
    BY <1>2
  <2>. QED
    BY <1>4, <1>6, <1>8, <2>1, <2>2
<1>9. CASE shown
  <2>1. PICK d : d = DrawnTab(s)
    OBVIOUS
  <2>2. /\ d \in TabShape /\ d.observed = s.observed /\ d.unread = s.unread
        /\ d.mode = s.mode /\ Position(d.list) = Position(s.list)
        /\ d.mode # "Editor" => d.current = Position(d.list)
        /\ Blank(d)
    BY <1>6, <2>1, DrawnTabShape
  <2>3. tabs'[t] = d /\ Shown(t)
    BY <1>4, <1>7, <1>9, <2>1
  <2>4. s.unread = (tab.unread \cup NewMessages(tab, actual[t])) \ {Position(s.list)}
    BY <1>6, <1>9
  <2>5. t \in Thread => tab = tabs[t]
    BY <1>2
  <2>. QED
    BY <1>6, <2>2, <2>3, <2>4, <2>5
<1>. QED
  BY <1>8, <1>9

LEMMA FrameKeepsTabs ==
  ASSUME TInv, Frame
  PROVE  /\ TInv' /\ mirrored' = actual
         /\ \A t \in Thread : t \in 1 .. Len(actual)
<1>1. /\ mirrored' = actual /\ feed' = <<>> /\ actual' = actual /\ active' = active
      /\ outgoing' = outgoing /\ sent' = sent
      /\ ended' = ended \/ ended' = "reader"
  BY DEF Frame, TInv, ThreadsMirrored
<1>2. /\ actual \in Seq(ThreadShape) /\ Len(actual) \in Nat /\ Len(mirrored) \in Nat
      /\ Len(tabs) \in Nat /\ Len(tabs) <= Len(mirrored) /\ Len(mirrored) <= Len(actual)
  BY DEF TInv, ThreadsMirrored, TabsObserve, MessagesArrive
<1>3. \A t \in Thread : t \in 1 .. Len(actual)
  BY <1>2 DEF Thread
<1>4. ThreadsMirrored'
  <2>1. feed' \in Seq(AppliedRecord) /\ Len(feed') = 0
    BY <1>1, EmptySeq
  <2>. QED
    BY <1>1, <1>2, <2>1, ProcessedNone DEF ThreadsMirrored
<1>5. tabs' \in Seq(TabShape) /\ Len(tabs') = Len(actual)
  <2>1. PICK F : F = [t \in 1 .. Len(actual) |-> tabs'[t]]
    OBVIOUS
  <2>2. tabs' = F
    BY <2>1 DEF Frame, TInv, ThreadsMirrored
  <2>3. F \in [1 .. Len(actual) -> TabShape]
    BY <2>1, FrameTab
  <2>. QED
    BY <1>2, <2>2, <2>3
<1>6. TabsObserve'
  BY <1>1, <1>2, <1>5, FrameTab DEF TabsObserve, Thread
<1>7. ReaderShowsSelection'
  <2>. SUFFICES ASSUME NEW t \in Thread', Shown(t)', tabs'[t].mode # "Editor"
                PROVE  IF tabs'[t].loaded
                       THEN /\ tabs'[t].current = Position(tabs'[t].list)
                            /\ tabs'[t].current \notin tabs'[t].unread
                       ELSE Position(tabs'[t].list) = 0
    BY DEF ReaderShowsSelection
  <2>1. t \in 1 .. Len(actual) /\ Shown(t)
    BY <1>1, <1>5 DEF Thread, Shown
  <2>2. /\ tabs'[t].current = Position(tabs'[t].list)
        /\ tabs'[t].current \notin tabs'[t].unread /\ Blank(tabs'[t])
    BY <2>1, FrameTab
  <2>. QED
    BY <2>2 DEF Blank
<1>8. MessagesArrive'
  <2>1. ASSUME NEW t \in 1 .. Len(actual)
        PROVE  Reflects(actual[t], actual[t], outgoing[t], sent[t])
    <3>1. UserSum(actual[t]) \in Nat /\ Arrives(actual[t], outgoing[t], sent[t])
      BY <1>2, UserSumType DEF TInv, MessagesArrive
    <3>. QED
      BY <3>1 DEF Arrives, Reflects
  <2>. QED
    BY <1>1, <1>2, <2>1 DEF TInv, MessagesArrive
<1>. QED
  BY <1>1, <1>3, <1>4, <1>6, <1>7, <1>8 DEF TInv

-----------------------------------------------------------------------------
(* The theorems about the tabs *)

LEMMA InitTInv == TInit => TInv
<1>. SUFFICES ASSUME TInit PROVE TInv
  OBVIOUS
<1>1. PICK ths \in Seq(ThreadShape) : ths = <<NewThread>>
  <2>1. <<NewThread>> \in Seq(ThreadShape)
    BY NewThreadType
  <2>. QED
    BY <2>1
<1>2. Len(ths) = 1 /\ ths[1] = NewThread
  BY <1>1
<1>3. actual = ths /\ mirrored = ths /\ feed = <<>>
  BY <1>1 DEF TInit
<1>4. ThreadsMirrored
  <2>1. feed \in Seq(AppliedRecord) /\ Len(feed) = 0
    BY <1>3, EmptySeq
  <2>. QED
    BY <1>3, <2>1, ProcessedNone DEF ThreadsMirrored
<1>5. tabs \in Seq(TabShape) /\ Len(tabs) = 0 /\ Thread = {}
  BY EmptySeq DEF TInit, Thread
<1>6. TabsObserve /\ ReaderShowsSelection
  BY <1>2, <1>3, <1>5 DEF TabsObserve, ReaderShowsSelection
<1>7. PICK e \in Seq(Message) : e = <<>>
  BY EmptySeq
<1>8. /\ outgoing \in Seq(Seq(Message)) /\ Len(outgoing) = 1 /\ outgoing[1] = <<>>
  <2>1. outgoing = <<e>>
    BY <1>7 DEF TInit
  <2>. QED
    BY <1>7, <2>1
<1>9. sent \in Seq(Nat) /\ Len(sent) = 1 /\ sent[1] = 0 /\ ended = "no"
  BY DEF TInit
<1>10. Arrives(NewThread, <<>>, 0) /\ Fits(NewThread, <<>>) /\ Reflects(NewThread, NewThread, <<>>, 0)
  BY NewThreadType DEF Arrives, Fits, Reflects
<1>11. MessagesArrive
  <2>1. \A t \in 1 .. 1 : t = 1
    OBVIOUS
  <2>2. /\ Len(outgoing) = Len(actual) /\ Len(sent) = Len(actual)
        /\ Len(mirrored) <= Len(actual) /\ ended # "sent"
    BY <1>2, <1>3, <1>8, <1>9
  <2>3. \A t \in 1 .. Len(actual) :
          Arrives(actual[t], outgoing[t], sent[t]) /\ Fits(actual[t], outgoing[t])
    BY <1>2, <1>3, <1>8, <1>9, <1>10, <2>1, Zenon
  <2>4. \A t \in 1 .. Len(mirrored) : Reflects(mirrored[t], actual[t], outgoing[t], sent[t])
    BY <1>2, <1>3, <1>8, <1>9, <1>10, <2>1, Zenon
  <2>. QED
    BY <1>8, <1>9, <2>2, <2>3, <2>4, Zenon DEF MessagesArrive
<1>. QED
  BY <1>4, <1>6, <1>11 DEF TInv

\* What a step may take from the unread messages of a tab.
ReadStep == \A t \in Thread : \A i \in Unseen(t) \ tabs'[t].unread :
          Shown(t)' /\ (tabs'[t].current = i \/ tabs'[t].mode = "Editor")

\* Where the mirror stays as it is, there is nothing new in it.
LEMMA NothingNew ==
  ASSUME TInv, mirrored' = mirrored, \A t \in Thread : tabs'[t].unread = tabs[t].unread
  PROVE  ReadStep
<1>1. ASSUME NEW t \in Thread  PROVE NewMessages(tabs[t], mirrored'[t]) = {}
  <2>1. tabs[t].observed = Len(mirrored[t].trace) /\ t \in 1 .. Len(mirrored)
    BY DEF TInv, TabsObserve, Thread, ThreadsMirrored
  <2>2. mirrored[t].trace \in Seq({"user", "agent"})
    <3>1. mirrored[t] \in ThreadShape
      BY <2>1 DEF TInv, ThreadsMirrored
    <3>. QED
      BY <3>1 DEF ThreadShape
  <2>3. Len(mirrored[t].trace) \in Nat
    BY <2>2
  <2>. QED
    BY <2>1, <2>3 DEF NewMessages
<1>. QED
  BY <1>1 DEF ReadStep, Unseen

LEMMA TabStepKeeps ==
  ASSUME TInv, [TNext]_tvars
  PROVE  TInv' /\ (TNext => ReadStep)
<1>1. CASE RuntimeSteps
  BY <1>1, RuntimeKeeps, NothingNew
<1>2. CASE UserSteps
  BY <1>2, InputKeeps, NothingNew
<1>3. CASE Frame
  <2>1. TInv' /\ mirrored' = actual /\ \A t \in Thread : t \in 1 .. Len(actual)
    BY <1>3, FrameKeepsTabs
  <2>2. \A t : Shown(t)' = Shown(t)
    BY <1>3 DEF Frame, Shown
  <2>. QED
    BY <1>3, <2>1, <2>2, FrameTab DEF ReadStep, Unseen
<1>4. CASE UNCHANGED tvars
  <2>1. /\ UNCHANGED <<actual, feed, mirrored, outgoing, tabs, active, drawn, sent, ended>>
    BY <1>4 DEF tvars, world, screen
  <2>2. TInv'
    BY <2>1 DEF TInv, ThreadsMirrored, TabsObserve, ReaderShowsSelection, MessagesArrive,
                Thread, Shown
  <2>3. ReadStep
    BY <2>1, NothingNew
  <2>. QED
    BY <2>2, <2>3
<1>. QED
  BY <1>1, <1>2, <1>3, <1>4 DEF TNext

THEOREM TabsInvariant == TSpec => []TInv
<1>1. TInv /\ [TNext]_tvars => TInv'
  BY TabStepKeeps
<1>. QED
  BY InitTInv, <1>1, PTL DEF TSpec

\* A reader that was ever given a message is drawn with the message the cursor is
\* on, or with the empty one where it is on none, and that message does not count
\* as unread, whatever the user and the runtime did before; one that was never
\* given a message, whose content is undefined, is drawn only where the cursor is
\* on none.
THEOREM ReaderShowsSelectionCorrect == TSpec => []ReaderShowsSelection
<1>1. TInv => ReaderShowsSelection
  BY DEF TInv
<1>. QED
  BY TabsInvariant, <1>1, PTL

\* A message sent with no answer due, and nothing sent before it left unseen, is
\* the answer it was meant as when it comes to the runtime, however many frames,
\* records and messages there were.
THEOREM SendCurrentCorrect == TSpec => []SendCurrent
<1>1. TInv => SendCurrent
  <2>. SUFFICES ASSUME TInv PROVE SendCurrent
    OBVIOUS
  <2>1. DOMAIN outgoing = 1 .. Len(actual)
    BY DEF TInv, MessagesArrive
  <2>. QED
    BY <2>1 DEF TInv, MessagesArrive, Fits, SendCurrent
<1>. QED
  BY TabsInvariant, <1>1, PTL

\* An agent's message stops being unread, or comes in read, only where a frame
\* draws it in the reader of the tab that is shown, or while that tab's editor
\* is maximised over a cursor that is on it.
THEOREM ReadWhenShownCorrect == TSpec => ReadWhenShown
<1>1. TInv /\ [TNext]_tvars => [ReadStep]_tvars
  BY TabStepKeeps
<1>. QED
  BY TabsInvariant, <1>1, PTL DEF TSpec, ReadWhenShown, ReadStep

-----------------------------------------------------------------------------
(* The types of the screen, and its bounds *)

\* A thread that has no more messages than the bound allows.
InBounds(th) == th \in ThreadState /\ Len(th.trace) <= MaxTrace

FeedRecord ==
  [op : {"thread", "call", "answer", "work", "ask", "return"}, thread : 1 .. MaxTabs]
SentMessage == [reply : 0 .. MaxTrace, toAsker : BOOLEAN, again : BOOLEAN]

\* Threads only grow, so the observer's are never ahead of the runtime's.
ThreadsBounded ==
  /\ Len(actual) <= MaxTabs
  /\ \A t \in 1 .. Len(actual) : InBounds(actual[t])
  /\ \A t \in 1 .. Len(mirrored) :
       InBounds(mirrored[t]) /\ Len(mirrored[t].trace) <= Len(actual[t].trace)
  /\ feed \in Seq(FeedRecord)

\* A tab whose list, unread messages and reader are of the messages it observed.
TabWithin(tab) ==
  /\ tab \in TabShape /\ WellPlaced(tab.list) /\ tab.list.hi <= tab.observed
  /\ tab.unread \subseteq 1 .. tab.observed /\ tab.current \in 0 .. tab.observed
  /\ tab.scroll \in 0 .. 1

TabsWithin == \A t \in Thread : TabWithin(tabs[t])

\* The Global tab lists the threads that have a tab, and no other tab is shown.
MenuTyped ==
  /\ WellPlaced(threadList) /\ threadList.hi = Len(tabs)
  /\ active \in 0 .. Len(tabs) + 1 /\ bar \in BOOLEAN /\ drawn \in BOOLEAN
  /\ inputs \in 0 .. MaxInputs /\ ended \in {"no", "sent", "sent_again", "reader"}

\* Every message the user sent took one input of his.
OutgoingTyped ==
  \A t \in 1 .. Len(actual) :
    /\ outgoing[t] = <<>> \/ \E m \in SentMessage : outgoing[t] = <<m>>
    /\ sent[t] <= inputs

ScreenTypes == TInv /\ ThreadsBounded /\ TabsWithin /\ MenuTyped /\ OutgoingTyped

LEMMA NewThreadBounded == InBounds(NewThread)
<1>1. <<>> \in Seq({"user", "agent"}) /\ Len(<<>>) = 0
  BY EmptySeq
<1>2. <<>> \in Seq([to : {"user", "agent"}, id : 1 .. MaxTrace])
  BY EmptySeq
<1>. QED
  BY <1>1, <1>2, ScreenNumbers DEF NewThread, ThreadState, InBounds

\* A message that there is room for.
LEMMA ApplyToBounded ==
  ASSUME NEW th, InBounds(th), Len(th.trace) < MaxTrace,
         NEW op \in {"call", "answer", "work", "ask", "return"},
         NEW e, e = ApplyTo(th, op)
  PROVE  InBounds(e) /\ Len(e.trace) = Len(th.trace) + 1
<1>1. PICK id : id = Len(th.trace) + 1
  OBVIOUS
<1>2. PICK Frames : Frames = [to : {"user", "agent"}, id : 1 .. MaxTrace]
  OBVIOUS
<1>3. /\ th.trace \in Seq({"user", "agent"}) /\ th.due \in BOOLEAN /\ th.frames \in Seq(Frames)
      /\ th \in ThreadState
  BY <1>2 DEF ThreadState, InBounds
<1>4. id \in 1 .. MaxTrace /\ Len(th.trace) \in Nat
  BY <1>1, <1>3, ScreenNumbers
<1>5. PICK tu, ta : tu = Append(th.trace, "user") /\ ta = Append(th.trace, "agent")
  OBVIOUS
<1>6. PICK fc, fa, ff : /\ fc = Append(th.frames, [to |-> "agent", id |-> id])
                        /\ fa = Append(th.frames, [to |-> "user", id |-> id])
                        /\ ff = Front(th.frames)
  OBVIOUS
<1>7. \A t \in {tu, ta} : t \in Seq({"user", "agent"}) /\ Len(t) = Len(th.trace) + 1
  <2>1. tu \in Seq({"user", "agent"}) /\ Len(tu) = Len(th.trace) + 1
    BY <1>3, <1>5
  <2>2. ta \in Seq({"user", "agent"}) /\ Len(ta) = Len(th.trace) + 1
    BY <1>3, <1>5
  <2>. QED
    BY <2>1, <2>2
<1>8. \A f \in {th.frames, fc, fa, ff} : f \in Seq(Frames)
  <2>1. [to |-> "agent", id |-> id] \in Frames /\ [to |-> "user", id |-> id] \in Frames
    BY <1>2, <1>4
  <2>2. fc \in Seq(Frames) /\ fa \in Seq(Frames)
    BY <2>1, <1>3, <1>6
  <2>3. ff \in Seq(Frames)
    BY <1>3, <1>6, FrontType
  <2>. QED
    BY <2>2, <2>3, <1>3
<1>9. ASSUME NEW t \in {tu, ta}, NEW f \in {th.frames, fc, fa, ff}, NEW b \in BOOLEAN,
             e = [trace |-> t, frames |-> f, due |-> b]
      PROVE  InBounds(e) /\ Len(e.trace) = Len(th.trace) + 1
  <2>1. t \in Seq({"user", "agent"}) /\ Len(t) = Len(th.trace) + 1 /\ f \in Seq(Frames)
    BY <1>7, <1>8
  <2>2. e \in ThreadState /\ e.trace = t
    BY <1>2, <1>9, <2>1 DEF ThreadState
  <2>. QED
    BY <1>1, <1>4, <2>1, <2>2 DEF InBounds
<1>10. th = [trace |-> th.trace, frames |-> th.frames, due |-> th.due]
  BY <1>3 DEF ThreadState
<1>11. CASE op = "call"
  <2>1. e = [trace |-> tu, frames |-> fc, due |-> TRUE]
    BY <1>1, <1>5, <1>6, <1>10, <1>11 DEF ApplyTo
  <2>. QED
    BY <1>9, <2>1
<1>12. CASE op = "answer"
  <2>1. e = [trace |-> tu, frames |-> ff, due |-> TRUE]
    BY <1>1, <1>5, <1>6, <1>10, <1>12 DEF ApplyTo
  <2>. QED
    BY <1>9, <2>1
<1>13. CASE op = "work"
  <2>1. e = [trace |-> ta, frames |-> th.frames, due |-> th.due]
    BY <1>1, <1>5, <1>10, <1>13 DEF ApplyTo
  <2>. QED
    BY <1>3, <1>9, <2>1
<1>14. CASE op = "ask"
  <2>1. e = [trace |-> ta, frames |-> fa, due |-> FALSE]
    BY <1>1, <1>5, <1>6, <1>10, <1>14 DEF ApplyTo
  <2>. QED
    BY <1>9, <2>1
<1>15. CASE op = "return"
  <2>1. e = [trace |-> ta, frames |-> ff, due |-> FALSE]
    BY <1>1, <1>5, <1>6, <1>10, <1>15 DEF ApplyTo
  <2>. QED
    BY <1>9, <2>1
<1>. QED
  BY <1>11, <1>12, <1>13, <1>14, <1>15

\* A record that may be consumed: there is room for a thread, or on the thread.
Consumable(r) ==
  /\ r \in FeedRecord
  /\ IF r.op = "thread" THEN Len(actual) < MaxTabs ELSE r.thread \in 1 .. Len(actual) /\ Room(r.thread)

LEMMA ConsumedBounded ==
  ASSUME TInv, ThreadsBounded, NEW r, Consumable(r), Consumed(r), mirrored' = mirrored
  PROVE  /\ ThreadsBounded' /\ \A t \in 1 .. Len(actual) : t \in 1 .. Len(actual')
         /\ Len(actual') = IF r.op = "thread" THEN Len(actual) + 1 ELSE Len(actual)
<1>1. r \in FeedRecord /\ r \in AppliedRecord /\ r.thread \in Nat
  BY DEF Consumable, FeedRecord, AppliedRecord
<1>2. actual' = Applied(actual, r) /\ feed' = Append(feed, r)
  BY DEF Consumed
<1>3. /\ actual \in Seq(ThreadShape) /\ mirrored \in Seq(ThreadShape) /\ Len(actual) \in Nat
      /\ Len(mirrored) \in Nat /\ Len(mirrored) <= Len(actual)
  BY DEF TInv, ThreadsMirrored, MessagesArrive
<1>4. PICK a : a = actual' /\ a = Applied(actual, r)
  BY <1>2
<1>5. /\ Len(a) = IF r.op = "thread" THEN Len(actual) + 1 ELSE Len(actual)
      /\ \A t \in 1 .. Len(actual) :
           a[t] = IF r.op # "thread" /\ t = r.thread THEN ApplyTo(actual[t], r.op) ELSE actual[t]
      /\ r.op = "thread" => a[Len(actual) + 1] = NewThread
  BY <1>1, <1>3, <1>4, AppliedLength
<1>6. Len(a) <= MaxTabs
  BY <1>3, <1>5, ScreenNumbers DEF Consumable, ThreadsBounded
<1>7. \A t \in 1 .. Len(actual) : t \in 1 .. Len(a)
  BY <1>3, <1>5
<1>8. ASSUME NEW t \in 1 .. Len(actual)
      PROVE  InBounds(a[t]) /\ Len(actual[t].trace) <= Len(a[t].trace)
  <2>1. InBounds(actual[t])
    BY DEF ThreadsBounded
  <2>2. Len(actual[t].trace) \in Nat
    <3>1. actual[t].trace \in Seq({"user", "agent"})
      BY <2>1 DEF InBounds, ThreadState
    <3>. QED
      BY <3>1
  <2>3. CASE r.op # "thread" /\ t = r.thread
    <3>1. r.op \in {"call", "answer", "work", "ask", "return"} /\ Room(t)
      BY <1>1, <2>3 DEF FeedRecord, Consumable
    <3>2. PICK e : e = ApplyTo(actual[t], r.op)
      OBVIOUS
    <3>3. InBounds(e) /\ Len(e.trace) = Len(actual[t].trace) + 1
      BY <2>1, <3>1, <3>2, ApplyToBounded DEF Room
    <3>4. a[t] = e
      BY <1>5, <2>3, <3>2
    <3>. QED
      BY <2>2, <3>3, <3>4
  <2>4. CASE ~(r.op # "thread" /\ t = r.thread)
    BY <1>5, <2>1, <2>2, <2>4
  <2>. QED
    BY <2>3, <2>4
<1>9. ASSUME NEW t \in 1 .. Len(a)  PROVE InBounds(a[t])
  <2>1. CASE t \in 1 .. Len(actual)
    BY <1>8, <2>1
  <2>2. CASE t \notin 1 .. Len(actual)
    <3>1. r.op = "thread" /\ t = Len(actual) + 1
      BY <1>3, <1>5, <2>2
    <3>. QED
      BY <1>5, <3>1, NewThreadBounded
  <2>. QED
    BY <2>1, <2>2
<1>10. ASSUME NEW t \in 1 .. Len(mirrored)
       PROVE  InBounds(mirrored[t]) /\ Len(mirrored[t].trace) <= Len(a[t].trace)
  <2>1. t \in 1 .. Len(actual)
    BY <1>3
  <2>2. InBounds(mirrored[t]) /\ Len(mirrored[t].trace) <= Len(actual[t].trace) /\ InBounds(actual[t])
    BY <2>1 DEF ThreadsBounded
  <2>3. InBounds(a[t]) /\ Len(actual[t].trace) <= Len(a[t].trace)
    BY <1>8, <2>1
  <2>4. ASSUME NEW th, InBounds(th)  PROVE Len(th.trace) \in Nat
    <3>1. th.trace \in Seq({"user", "agent"})
      BY <2>4 DEF InBounds, ThreadState
    <3>. QED
      BY <3>1
  <2>5. Len(mirrored[t].trace) \in Nat /\ Len(actual[t].trace) \in Nat /\ Len(a[t].trace) \in Nat
    BY <2>2, <2>3, <2>4
  <2>. QED
    BY <2>2, <2>3, <2>5
<1>11. feed' \in Seq(FeedRecord)
  BY <1>1, <1>2 DEF ThreadsBounded
<1>12. ThreadsBounded'
  BY <1>4, <1>6, <1>9, <1>10, <1>11 DEF ThreadsBounded
<1>. QED
  BY <1>4, <1>5, <1>7, <1>12

LEMMA ConsumedKeepsTypes ==
  ASSUME ScreenTypes, TInv', NEW r, Consumable(r), Consumed(r),
         UNCHANGED <<mirrored, screen, inputs, ended>>, OutgoingTyped'
  PROVE  ScreenTypes'
<1>1. ThreadsBounded'
  BY ConsumedBounded DEF ScreenTypes
<1>2. TabsWithin'
  BY DEF ScreenTypes, TabsWithin, Thread, screen
<1>3. MenuTyped'
  <2>1. drawn' \in BOOLEAN
    BY DEF Consumed
  <2>. QED
    BY <2>1 DEF ScreenTypes, MenuTyped, screen
<1>. QED
  BY <1>1, <1>2, <1>3 DEF ScreenTypes

LEMMA RuntimeKeepsTypes ==
  ASSUME ScreenTypes, RuntimeSteps
  PROVE  ScreenTypes'
<1>1. TInv'
  BY RuntimeKeeps DEF ScreenTypes
<1>2. /\ Len(actual) \in Nat /\ Len(outgoing) = Len(actual) /\ Len(sent) = Len(actual)
      /\ outgoing \in Seq(Seq(Message)) /\ sent \in Seq(Nat) /\ inputs \in Nat
      /\ Len(actual) <= MaxTabs
  BY ScreenNumbers DEF ScreenTypes, TInv, ThreadsMirrored, MessagesArrive, MenuTyped, ThreadsBounded
<1>3. CASE ThreadCreated
  <2>1. PICK r : r = [op |-> "thread", thread |-> Len(actual) + 1]
    OBVIOUS
  <2>2. Consumable(r)
    <3>1. Len(actual) < MaxTabs
      BY <1>3 DEF ThreadCreated
    <3>. QED
      BY <1>2, <2>1, <3>1, ScreenNumbers DEF Consumable, FeedRecord
  <2>3. /\ Consumed(r) /\ UNCHANGED <<mirrored, screen, inputs, ended>>
        /\ outgoing' = Append(outgoing, <<>>) /\ sent' = Append(sent, 0)
    BY <1>3, <2>1 DEF ThreadCreated
  <2>4. Len(actual') = Len(actual) + 1
    BY <2>1, <2>2, <2>3, ConsumedBounded DEF ScreenTypes
  <2>5. ASSUME NEW t \in 1 .. Len(actual')
        PROVE  /\ outgoing'[t] = <<>> \/ \E m \in SentMessage : outgoing'[t] = <<m>>
               /\ sent'[t] <= inputs
    <3>1. CASE t \in 1 .. Len(actual)
      <4>1. outgoing'[t] = outgoing[t] /\ sent'[t] = sent[t]
        BY <1>2, <2>3, <3>1
      <4>. QED
        BY <3>1, <4>1 DEF ScreenTypes, OutgoingTyped
    <3>2. CASE t = Len(actual) + 1
      <4>1. outgoing'[t] = <<>> /\ sent'[t] = 0
        BY <1>2, <2>3, <3>2
      <4>. QED
        BY <1>2, <4>1
    <3>. QED
      BY <1>2, <2>4, <3>1, <3>2
  <2>6. OutgoingTyped'
    BY <2>3, <2>5 DEF OutgoingTyped
  <2>. QED
    BY <1>1, <2>2, <2>3, <2>6, ConsumedKeepsTypes
<1>4. ASSUME NEW t \in 1 .. Len(actual), NEW op \in {"call", "answer", "work", "ask", "return"},
             Room(t), Consumed([op |-> op, thread |-> t]),
             outgoing' = outgoing \/ outgoing' = [outgoing EXCEPT ![t] = <<>>],
             UNCHANGED <<mirrored, screen, inputs, sent, ended>>
      PROVE  ScreenTypes'
  <2>1. PICK r : r = [op |-> op, thread |-> t]
    OBVIOUS
  <2>2. Consumable(r) /\ r.op # "thread"
    BY <1>2, <1>4, <2>1, ScreenNumbers DEF Consumable, FeedRecord
  <2>3. Consumed(r)
    BY <1>4, <2>1
  <2>4. Len(actual') = Len(actual)
    BY <1>4, <2>2, <2>3, ConsumedBounded DEF ScreenTypes
  <2>5. ASSUME NEW u \in 1 .. Len(actual)  PROVE outgoing'[u] \in {<<>>, outgoing[u]}
    <3>1. DOMAIN outgoing = 1 .. Len(actual)
      BY <1>2
    <3>2. CASE outgoing' = outgoing
      BY <3>2
    <3>3. CASE outgoing' = [outgoing EXCEPT ![t] = <<>>]
      BY <3>1, <3>3
    <3>. QED
      BY <1>4, <3>2, <3>3
  <2>6. OutgoingTyped'
    BY <1>4, <2>4, <2>5 DEF ScreenTypes, OutgoingTyped
  <2>. QED
    BY <1>1, <1>4, <2>2, <2>3, <2>6, ConsumedKeepsTypes
<1>5. ASSUME NEW t \in 1 .. Len(actual), Delivered(t)  PROVE ScreenTypes'
  <2>1. PICK op \in {"call", "answer"} : op = IF outgoing[t][1].reply = 0 THEN "call" ELSE "answer"
    OBVIOUS
  <2>2. Room(t) /\ Consumed([op |-> op, thread |-> t])
        /\ UNCHANGED <<mirrored, outgoing, screen, inputs, sent, ended>>
    BY <1>5, <2>1 DEF Delivered
  <2>. QED
    BY <1>4, <2>2
<1>6. ASSUME NEW t \in 1 .. Len(actual), AgentWorks(t)  PROVE ScreenTypes'
  <2>1. Room(t) /\ Consumed([op |-> "work", thread |-> t])
        /\ UNCHANGED <<mirrored, outgoing, screen, inputs, sent, ended>>
    BY <1>6 DEF AgentWorks, Working
  <2>. QED
    BY <1>4, <2>1
<1>7. ASSUME NEW t \in 1 .. Len(actual), UserHears(t)  PROVE ScreenTypes'
  <2>1. PICK op \in {"ask", "return"} : Consumed([op |-> op, thread |-> t])
    BY <1>7 DEF UserHears
  <2>2. Room(t) /\ outgoing' = [outgoing EXCEPT ![t] = <<>>]
        /\ UNCHANGED <<mirrored, screen, inputs, sent, ended>>
    BY <1>7 DEF UserHears, Working
  <2>. QED
    BY <1>4, <2>1, <2>2
<1>. QED
  BY <1>3, <1>5, <1>6, <1>7 DEF RuntimeSteps

\* A tab is within its bounds when a frame leaves it, as when it is opened.
LEMMA NewTabWithin ==
  ASSUME NEW th \in ThreadShape
  PROVE  TabWithin(NewTab(th))
<1>1. PICK l : l = NewList(0, TRUE)
  OBVIOUS
<1>2. WellPlaced(l) /\ l.hi = 0
  BY <1>1, NewListPlaced
<1>3. th.trace \in Seq({"user", "agent"})
  BY DEF ThreadShape
<1>4. PICK n \in Nat : n = Len(th.trace)
  BY <1>3
<1>5. PICK tab : tab = NewTab(th)
  OBVIOUS
<1>6. /\ tab.list = l /\ tab.observed = n /\ tab.unread = {} /\ tab.current = 0
      /\ tab.scroll = 0
  BY <1>1, <1>4, <1>5 DEF NewTab
<1>7. tab \in TabShape
  BY <1>5, NewTabShape
<1>. QED
  BY <1>2, <1>5, <1>6, <1>7 DEF TabWithin

LEMMA SyncedWithin ==
  ASSUME NEW tab, TabWithin(tab), NEW th \in ThreadShape, Len(th.trace) >= tab.observed,
         NEW shown \in BOOLEAN, NEW s, s = Synced(tab, th, shown)
  PROVE  TabWithin(s) /\ s.observed = Len(th.trace)
<1>1. th.trace \in Seq({"user", "agent"}) /\ tab.list \in ListShape /\ tab \in TabShape
  BY DEF ThreadShape, TabShape, TabWithin
<1>2. PICK n \in Nat : n = Len(th.trace)
  BY <1>1
<1>3. PICK l : l = [tab.list EXCEPT !.hi = n]
  OBVIOUS
<1>4. tab.observed \in Nat /\ tab.list.hi \in Nat /\ n >= tab.list.hi
  BY <1>1, <1>2, ListFields DEF TabShape, TabWithin
<1>5. WellPlaced(l) /\ l.hi = n
  BY <1>2, <1>3, <1>4, GrownPlaced DEF TabWithin
<1>6. PICK u : u = (tab.unread \cup NewMessages(tab, th)) \ IF shown THEN {Position(l)} ELSE {}
  OBVIOUS
<1>7. s = [tab EXCEPT !.list = l, !.observed = n, !.unread = u]
  BY <1>2, <1>3, <1>6 DEF Synced
<1>8. /\ s.list = l /\ s.observed = n /\ s.unread = u /\ s.current = tab.current
      /\ s.scroll = tab.scroll
  BY <1>1, <1>7 DEF TabShape
<1>9. s \in TabShape
  BY <1>1, SyncedShape
<1>10. u \subseteq 1 .. n
  <2>1. NewMessages(tab, th) \subseteq 1 .. n
    BY <1>2, <1>4 DEF NewMessages
  <2>2. tab.unread \subseteq 1 .. n
    BY <1>2, <1>4 DEF TabWithin
  <2>. QED
    BY <1>6, <2>1, <2>2
<1>11. tab.current \in 0 .. n /\ tab.scroll \in 0 .. 1
  BY <1>2, <1>4 DEF TabWithin
<1>. QED
  BY <1>2, <1>5, <1>8, <1>9, <1>10, <1>11 DEF TabWithin

LEMMA ReloadedWithin ==
  ASSUME NEW tab, TabWithin(tab), NEW r, r = Reloaded(tab), r \in TabShape
  PROVE  TabWithin(r)
<1>1. tab.list \in ListShape /\ tab \in TabShape
  BY DEF TabShape, TabWithin
<1>2. PICK i \in Nat : i = Position(tab.list)
  BY <1>1, PositionType
<1>3. i \in 0 .. tab.observed
  <2>1. tab.list.hi \in Nat /\ tab.list.sel \in Int /\ tab.list.lo = 0 /\ tab.observed \in Nat
    BY <1>1, ListFields DEF TabShape
  <2>. QED
    BY <1>2, <2>1 DEF Position, Holds, TabWithin
<1>4. CASE i = tab.current
  BY <1>2, <1>4 DEF Reloaded
<1>5. CASE i # tab.current
  <2>1. r = [tab EXCEPT !.current = i, !.loaded = TRUE, !.scroll = 0]
    BY <1>2, <1>5 DEF Reloaded
  <2>2. /\ r.list = tab.list /\ r.observed = tab.observed /\ r.unread = tab.unread
        /\ r.current = i /\ r.scroll = 0
    BY <1>1, <2>1 DEF TabShape
  <2>. QED
    BY <1>3, <2>2 DEF TabWithin
<1>. QED
  BY <1>4, <1>5

LEMMA DrawnTabWithin ==
  ASSUME NEW tab, TabWithin(tab), NEW d, d = DrawnTab(tab)
  PROVE  TabWithin(d)
<1>1. tab \in TabShape /\ tab.mode \in Mode /\ d \in TabShape
  BY DrawnTabShape DEF TabWithin, TabShape
<1>2. CASE tab.mode = "Normal"
  <2>1. PICK l : l = Drawn(tab.list, Height)
    OBVIOUS
  <2>2. WellPlaced(l) /\ l.hi = tab.list.hi /\ l \in ListShape
    BY <2>1, DrawnPlaced DEF TabWithin, WellPlaced
  <2>3. PICK e : e = [tab EXCEPT !.list = l]
    OBVIOUS
  <2>4. /\ e \in TabShape /\ e.list = l /\ e.observed = tab.observed /\ e.unread = tab.unread
        /\ e.current = tab.current /\ e.scroll = tab.scroll
    BY <1>1, <2>2, <2>3 DEF TabShape
  <2>5. TabWithin(e)
    BY <2>2, <2>4 DEF TabWithin
  <2>6. d = Reloaded(e)
    BY <1>2, <2>1, <2>3 DEF DrawnTab
  <2>. QED
    BY <1>1, <2>5, <2>6, ReloadedWithin
<1>3. CASE tab.mode = "Message"
  <2>1. d = Reloaded(tab)
    BY <1>3 DEF DrawnTab
  <2>. QED
    BY <1>1, <2>1, ReloadedWithin
<1>4. CASE tab.mode = "Editor"
  BY <1>4 DEF DrawnTab
<1>. QED
  BY <1>1, <1>2, <1>3, <1>4 DEF Mode

LEMMA FrameTabWithin ==
  ASSUME ScreenTypes, Frame, NEW t \in 1 .. Len(actual)
  PROVE  TabWithin(tabs'[t])
<1>1. actual[t] \in ThreadShape
  BY DEF ScreenTypes, TInv, ThreadsMirrored
<1>2. PICK tab : tab = IF t \in Thread THEN tabs[t] ELSE NewTab(actual[t])
  OBVIOUS
<1>3. TabWithin(tab) /\ Len(actual[t].trace) >= tab.observed
  <2>1. CASE t \in Thread
    <3>1. TabWithin(tabs[t])
      BY <2>1 DEF ScreenTypes, TabsWithin
    <3>2. tabs[t].observed = Len(mirrored[t].trace) /\ t \in 1 .. Len(mirrored)
      BY <2>1 DEF ScreenTypes, TInv, TabsObserve, ThreadsMirrored, Thread
    <3>3. Len(mirrored[t].trace) <= Len(actual[t].trace)
      BY <3>2 DEF ScreenTypes, ThreadsBounded
    <3>4. mirrored[t].trace \in Seq({"user", "agent"}) /\ actual[t].trace \in Seq({"user", "agent"})
      <4>1. mirrored[t] \in ThreadShape
        BY <3>2 DEF ScreenTypes, TInv, ThreadsMirrored
      <4>. QED
        BY <1>1, <4>1 DEF ThreadShape
    <3>5. Len(mirrored[t].trace) \in Nat /\ Len(actual[t].trace) \in Nat
      BY <3>4
    <3>6. tab = tabs[t]
      BY <1>2, <2>1
    <3>. QED
      BY <3>1, <3>2, <3>3, <3>5, <3>6
  <2>2. CASE t \notin Thread
    <3>1. tab = NewTab(actual[t])
      BY <1>2, <2>2
    <3>2. tab.observed = Len(actual[t].trace)
      BY <3>1 DEF NewTab
    <3>3. actual[t].trace \in Seq({"user", "agent"})
      BY <1>1 DEF ThreadShape
    <3>4. Len(actual[t].trace) \in Nat
      BY <3>3
    <3>. QED
      BY <1>1, <3>1, <3>2, <3>4, NewTabWithin
  <2>. QED
    BY <2>1, <2>2
<1>4. PICK shown \in BOOLEAN : shown = Shown(t)
  BY DEF Shown
<1>5. PICK s : s = Synced(tab, actual[t], shown)
  OBVIOUS
<1>6. TabWithin(s)
  BY <1>1, <1>3, <1>5, SyncedWithin
<1>7. tabs'[t] = IF shown THEN DrawnTab(s) ELSE s
  BY <1>2, <1>4, <1>5 DEF Frame, SyncedTabs, ScreenTypes, TInv, ThreadsMirrored
<1>. QED
  BY <1>6, <1>7, DrawnTabWithin

LEMMA FrameKeepsTypes ==
  ASSUME ScreenTypes, Frame
  PROVE  ScreenTypes'
<1>1. TInv'
  BY FrameKeepsTabs DEF ScreenTypes
<1>2. /\ mirrored' = actual /\ feed' = <<>> /\ drawn' = TRUE
      /\ UNCHANGED <<actual, outgoing, active, bar, inputs, sent>>
      /\ ended' = ended \/ ended' = "reader"
      /\ tabs' = [t \in 1 .. Len(actual) |-> tabs'[t]]
  BY DEF Frame, ScreenTypes, TInv, ThreadsMirrored
<1>3. /\ actual \in Seq(ThreadShape) /\ Len(actual) \in Nat /\ Len(tabs) \in Nat
      /\ Len(tabs) <= Len(actual) /\ Len(actual) <= MaxTabs
  BY DEF ScreenTypes, TInv, ThreadsMirrored, TabsObserve, MessagesArrive, ThreadsBounded
<1>4. Len(tabs') = Len(actual)
  BY <1>2, <1>3
<1>5. ThreadsBounded'
  <2>1. feed' \in Seq(FeedRecord)
    BY <1>2, EmptySeq
  <2>2. ASSUME NEW t \in 1 .. Len(actual)
        PROVE  InBounds(actual[t]) /\ Len(actual[t].trace) <= Len(actual[t].trace)
    <3>1. InBounds(actual[t])
      BY DEF ScreenTypes, ThreadsBounded
    <3>2. actual[t].trace \in Seq({"user", "agent"})
      BY <3>1 DEF InBounds, ThreadState
    <3>. QED
      BY <3>1, <3>2
  <2>. QED
    BY <1>2, <1>3, <2>1, <2>2 DEF ThreadsBounded
<1>6. TabsWithin'
  BY <1>4, FrameTabWithin DEF TabsWithin, Thread
<1>7. MenuTyped'
  <2>1. PICK n \in Nat : n = Len(actual) - Len(tabs)
    BY <1>3
  <2>2. PICK listed : listed = Extended(threadList, n, MaxTabs)
    OBVIOUS
  <2>3. WellPlaced(threadList) /\ threadList.hi = Len(tabs)
    BY DEF ScreenTypes, MenuTyped
  <2>4. WellPlaced(listed) /\ listed.hi = Len(actual)
    BY <1>3, <2>1, <2>2, <2>3, ScreenNumbers, ExtendedPlaced
  <2>5. threadList' = IF active = 0 THEN Drawn(listed, Height) ELSE listed
    BY <2>1, <2>2 DEF Frame, ScreenTypes, TInv, ThreadsMirrored
  <2>6. WellPlaced(threadList') /\ threadList'.hi = Len(actual)
    BY <2>4, <2>5, DrawnPlaced
  <2>7. active' \in 0 .. Len(tabs') + 1
    BY <1>2, <1>3, <1>4 DEF ScreenTypes, MenuTyped
  <2>8. bar' \in BOOLEAN /\ drawn' \in BOOLEAN /\ inputs' \in 0 .. MaxInputs
    BY <1>2 DEF ScreenTypes, MenuTyped
  <2>9. ended' \in {"no", "sent", "sent_again", "reader"}
    BY <1>2 DEF ScreenTypes, MenuTyped
  <2>. QED
    BY <1>4, <2>6, <2>7, <2>8, <2>9 DEF MenuTyped
<1>8. OutgoingTyped'
  BY <1>2 DEF ScreenTypes, OutgoingTyped
<1>. QED
  BY <1>1, <1>5, <1>6, <1>7, <1>8 DEF ScreenTypes

-----------------------------------------------------------------------------
(* The user's inputs, within the bounds *)

\* What an input leaves of the menu.
MenuKept ==
  /\ threadList' = threadList \/ LeavesPlaced(threadList, threadList')
  /\ active' \in 0 .. Len(tabs) + 1 /\ bar' \in BOOLEAN
  /\ ended' \in {ended, "sent", "sent_again"}

LEMMA UserStepMenu ==
  ASSUME ScreenTypes, UserSteps
  PROVE  MenuKept
<1>1. /\ active \in 0 .. Len(tabs) + 1 /\ bar \in BOOLEAN /\ threadList \in ListShape
      /\ threadList.hi = Len(tabs) /\ Len(tabs) \in Nat
  BY DEF ScreenTypes, MenuTyped, WellPlaced, TInv, TabsObserve
<1>2. UNCHANGED <<threadList, active, ended>> /\ bar' \in BOOLEAN => MenuKept
  BY <1>1 DEF MenuKept
<1>3. ASSUME NEW i \in 0 .. Len(tabs) + 1, SelectTab(i)  PROVE MenuKept
  BY <1>3 DEF SelectTab, MenuKept
<1>4. CASE LeaveBar
  <2>1. bar' \in BOOLEAN /\ UNCHANGED <<threadList, active, ended>>
    BY <1>4 DEF LeaveBar
  <2>. QED
    BY <1>2, <2>1
<1>5. ASSUME NEW key \in TraceKeys, ThreadListKey(key)  PROVE MenuKept
  <2>1. key \in Keys
    BY TuiAssumption
  <2>2. bar' = bar /\ ended' = ended
    BY <1>5 DEF ThreadListKey
  <2>3. CASE key = "return" /\ Opens(threadList)
    <3>1. active' = threadList.sel + 2 /\ threadList' = threadList
      BY <1>5, <2>3 DEF ThreadListKey
    <3>2. Holds(threadList, threadList.sel)
      <4>1. Normalized(threadList).sel = IF Holds(threadList, threadList.sel) THEN threadList.sel ELSE None
        BY <1>1, NormalizedShape
      <4>. QED
        BY <2>3, <4>1 DEF Opens
    <3>3. threadList.lo = 0 /\ threadList.sel \in Int
      BY <1>1, ListFields
    <3>4. threadList.sel + 2 \in 0 .. Len(tabs) + 1
      BY <1>1, <3>2, <3>3 DEF Holds
    <3>. QED
      BY <1>1, <2>2, <3>1, <3>4 DEF MenuKept
  <2>4. CASE ~(key = "return" /\ Opens(threadList))
    <3>1. threadList' = Pressed(threadList, key) /\ active' = active
      BY <1>5, <2>4 DEF ThreadListKey
    <3>2. LeavesPlaced(threadList, threadList')
      BY <1>1, <2>1, <3>1, PressedMoves
    <3>. QED
      BY <1>1, <2>2, <3>1, <3>2 DEF MenuKept
  <2>. QED
    BY <2>3, <2>4
<1>6. ASSUME NEW t, NEW key, TraceKey(t, key)  PROVE MenuKept
  BY <1>1, <1>2, <1>6 DEF TraceKey
<1>7. ASSUME NEW t, ReaderKey(t) \/ Type(t) \/ CyclePane(t, 1) \/ CyclePane(t, 3)  PROVE MenuKept
  BY <1>1, <1>2, <1>7 DEF ReaderKey, Type, CyclePane
<1>8. ASSUME NEW t, NEW pane, ClickPane(t, pane)  PROVE MenuKept
  BY <1>1, <1>2, <1>8 DEF ClickPane
<1>9. ASSUME NEW t, Maximize(t)  PROVE MenuKept
  <2>1. UNCHANGED <<threadList, active, ended>>
    BY <1>9 DEF Maximize
  <2>2. bar' = bar \/ bar' = FALSE
    BY <1>9 DEF Maximize
  <2>. QED
    BY <1>1, <1>2, <2>1, <2>2
<1>10. ASSUME NEW t, NEW toAsker, SendButton(t, toAsker) \/ SendKey(t, toAsker)  PROVE MenuKept
  <2>1. Sends(t, toAsker) /\ (bar' = FALSE \/ bar' = bar)
    BY <1>10 DEF SendButton, SendKey
  <2>2. UNCHANGED <<threadList, active>> /\ ended' \in {ended, "sent", "sent_again"}
    BY <2>1 DEF Sends
  <2>. QED
    BY <1>1, <2>1, <2>2 DEF MenuKept
<1>. QED
  BY <1>3, <1>4, <1>5, <1>6, <1>7, <1>8, <1>9, <1>10 DEF UserSteps

\* An answer names a message of the thread.
LEMMA ReplyBounded ==
  ASSUME ScreenTypes, NEW t \in 1 .. Len(mirrored), NEW toAsker \in BOOLEAN
  PROVE  Reply(t, toAsker) \in 0 .. MaxTrace
<1>1. PICK f : f = mirrored[t].frames
  OBVIOUS
<1>2. f \in Seq([to : {"user", "agent"}, id : 1 .. MaxTrace])
  <2>1. mirrored[t] \in ThreadState
    BY DEF ScreenTypes, ThreadsBounded, InBounds
  <2>. QED
    BY <1>1, <2>1 DEF ThreadState
<1>3. CASE toAsker /\ Asked(mirrored[t])
  <2>1. f # <<>>
    BY <1>1, <1>3 DEF Asked
  <2>2. PICK F : F = [to : {"user", "agent"}, id : 1 .. MaxTrace]
    OBVIOUS
  <2>3. f \in Seq(F)
    BY <1>2, <2>2
  <2>4. Last(f) \in F
    BY <2>1, <2>3, LastType
  <2>5. Last(f).id \in 1 .. MaxTrace
    BY <2>2, <2>4
  <2>. QED
    BY <1>1, <1>3, <2>5, ScreenNumbers DEF Reply
<1>4. CASE ~(toAsker /\ Asked(mirrored[t]))
  BY <1>4, ScreenNumbers DEF Reply
<1>. QED
  BY <1>3, <1>4

LEMMA SendsTyped ==
  ASSUME ScreenTypes, NEW t \in Thread, NEW toAsker \in BOOLEAN, Sends(t, toAsker)
  PROVE  OutgoingTyped'
<1>1. /\ actual' = actual /\ sent' = [sent EXCEPT ![t] = @ + 1] /\ inputs' = inputs + 1
  BY DEF Sends, Input, world
<1>2. /\ Len(actual) \in Nat /\ Len(outgoing) = Len(actual) /\ Len(sent) = Len(actual)
      /\ outgoing \in Seq(Seq(Message)) /\ sent \in Seq(Nat) /\ inputs \in Nat
      /\ t \in 1 .. Len(mirrored)
  BY ScreenNumbers DEF ScreenTypes, TInv, ThreadsMirrored, MessagesArrive, MenuTyped, TabsObserve, Thread
<1>3. PICK m : m = [reply |-> Reply(t, toAsker), toAsker |-> toAsker, again |-> Behind(t)]
  OBVIOUS
<1>4. m \in SentMessage
  <2>0. PICK again \in BOOLEAN : again <=> Behind(t)
    OBVIOUS
  <2>1. again = Behind(t)
    BY <2>0 DEF Behind
  <2>2. PICK r \in 0 .. MaxTrace : r = Reply(t, toAsker)
    BY <1>2, ReplyBounded
  <2>3. m = [reply |-> r, toAsker |-> toAsker, again |-> again]
    BY <1>3, <2>1, <2>2
  <2>. QED
    BY <2>3 DEF SentMessage
<1>5. outgoing' = outgoing \/ outgoing' = [outgoing EXCEPT ![t] = <<m>>]
  BY <1>3 DEF Sends
<1>6. ASSUME NEW u \in 1 .. Len(actual)  PROVE outgoing'[u] \in {outgoing[u], <<m>>}
  <2>1. DOMAIN outgoing = 1 .. Len(actual)
    BY <1>2
  <2>2. CASE outgoing' = outgoing
    BY <2>2
  <2>3. CASE outgoing' = [outgoing EXCEPT ![t] = <<m>>]
    BY <2>1, <2>3
  <2>. QED
    BY <1>5, <2>2, <2>3
<1>7. ASSUME NEW u \in 1 .. Len(actual)  PROVE sent'[u] <= inputs'
  <2>1. sent[u] <= inputs /\ sent[u] \in Nat
    BY <1>2 DEF ScreenTypes, OutgoingTyped
  <2>2. sent'[u] \in {sent[u], sent[u] + 1}
    BY <1>1, <1>2
  <2>. QED
    BY <1>1, <1>2, <2>1, <2>2
<1>8. ASSUME NEW u \in 1 .. Len(actual)
      PROVE  outgoing'[u] = <<>> \/ \E n \in SentMessage : outgoing'[u] = <<n>>
  BY <1>4, <1>6 DEF ScreenTypes, OutgoingTyped
<1>. QED
  BY <1>1, <1>7, <1>8 DEF OutgoingTyped

LEMMA InputKeepsTypes ==
  ASSUME ScreenTypes, UserSteps
  PROVE  ScreenTypes'
<1>1. TInv'
  BY InputKeeps DEF ScreenTypes
<1>2. /\ Input /\ (tabs' = tabs \/ OneTabChanged)
      /\ UNCHANGED <<outgoing, sent, ended>> \/ SomeSend
  BY UserStepKeeps DEF ScreenTypes, TInv, TabsObserve
<1>3. /\ UNCHANGED <<actual, feed, mirrored>> /\ inputs < MaxInputs /\ inputs' = inputs + 1
      /\ drawn' = FALSE
  BY <1>2 DEF Input, world
<1>4. tabs \in Seq(TabShape) /\ Len(tabs) \in Nat /\ inputs \in Nat
  BY ScreenNumbers DEF ScreenTypes, TInv, TabsObserve, MenuTyped
<1>5. ThreadsBounded'
  BY <1>3 DEF ScreenTypes, ThreadsBounded
<1>6. Len(tabs') = Len(tabs) /\ TabsWithin'
  <2>1. CASE tabs' = tabs
    BY <2>1 DEF ScreenTypes, TabsWithin, Thread
  <2>2. CASE OneTabChanged
    <3>1. PICK t \in Thread : \E e : Kept(tabs[t], e) /\ Leaves(e, t)
      BY <2>2 DEF OneTabChanged
    <3>2. PICK e : Kept(tabs[t], e) /\ Leaves(e, t)
      BY <3>1
    <3>3. /\ Len(tabs') = Len(tabs) /\ tabs'[t] = e
          /\ \A u \in 1 .. Len(tabs) : u # t => tabs'[u] = tabs[u]
      BY <1>4, <3>2 DEF Leaves, Kept, Thread
    <3>4. TabWithin(tabs[t])
      BY DEF ScreenTypes, TabsWithin
    <3>5. TabWithin(e)
      <4>1. /\ e \in TabShape /\ e.observed = tabs[t].observed /\ e.unread = tabs[t].unread
            /\ e.current = tabs[t].current
        BY <3>2 DEF Kept
      <4>2. e.scroll \in 0 .. 1
        BY <3>2, <3>4 DEF Kept, TabWithin
      <4>3. WellPlaced(e.list) /\ e.list.hi = tabs[t].list.hi
        BY <3>2, <3>4 DEF Kept, TabWithin, LeavesPlaced
      <4>. QED
        BY <3>4, <4>1, <4>2, <4>3 DEF TabWithin
    <3>6. ASSUME NEW u \in 1 .. Len(tabs)  PROVE TabWithin(tabs'[u])
      BY <3>3, <3>5 DEF ScreenTypes, TabsWithin, Thread
    <3>. QED
      BY <3>3, <3>6 DEF TabsWithin, Thread
  <2>. QED
    BY <1>2, <2>1, <2>2
<1>7. MenuTyped'
  <2>1. MenuKept
    BY UserStepMenu
  <2>2. WellPlaced(threadList') /\ threadList'.hi = Len(tabs')
    BY <1>6, <2>1 DEF ScreenTypes, MenuTyped, MenuKept, LeavesPlaced
  <2>3. active' \in 0 .. Len(tabs') + 1 /\ bar' \in BOOLEAN /\ drawn' \in BOOLEAN
    BY <1>3, <1>6, <2>1 DEF MenuKept
  <2>4. inputs' \in 0 .. MaxInputs
    BY <1>3, <1>4, ScreenNumbers
  <2>5. ended' \in {"no", "sent", "sent_again", "reader"}
    BY <2>1 DEF ScreenTypes, MenuTyped, MenuKept
  <2>. QED
    BY <2>2, <2>3, <2>4, <2>5 DEF MenuTyped
<1>8. OutgoingTyped'
  <2>1. CASE SomeSend
    BY <2>1, SendsTyped DEF SomeSend
  <2>2. CASE UNCHANGED <<outgoing, sent, ended>>
    <3>1. ASSUME NEW t \in 1 .. Len(actual)  PROVE sent[t] <= inputs'
      <4>1. sent[t] <= inputs /\ sent[t] \in Nat
        BY DEF ScreenTypes, OutgoingTyped, TInv, MessagesArrive
      <4>. QED
        BY <1>3, <1>4, <4>1
    <3>. QED
      BY <1>3, <2>2, <3>1 DEF ScreenTypes, OutgoingTyped
  <2>. QED
    BY <1>2, <2>1, <2>2
<1>. QED
  BY <1>1, <1>5, <1>6, <1>7, <1>8 DEF ScreenTypes

-----------------------------------------------------------------------------
(* The type invariant *)

LEMMA InitScreenTypes == TInit => ScreenTypes
<1>. SUFFICES ASSUME TInit PROVE ScreenTypes
  OBVIOUS
<1>1. TInv
  BY InitTInv
<1>2. PICK th : th = NewThread
  OBVIOUS
<1>3. actual = <<th>> /\ mirrored = <<th>> /\ feed = <<>>
  BY <1>2 DEF TInit
<1>4. Len(actual) = 1 /\ Len(mirrored) = 1 /\ actual[1] = th /\ mirrored[1] = th
  BY <1>3
<1>5. InBounds(th) /\ Len(th.trace) = 0
  BY <1>2, NewThreadBounded DEF NewThread
<1>6. \A t \in 1 .. 1 : t = 1
  OBVIOUS
<1>7. feed \in Seq(FeedRecord)
  BY <1>3, EmptySeq
<1>8. ThreadsBounded
  BY <1>4, <1>5, <1>6, <1>7, ScreenNumbers DEF ThreadsBounded
<1>9. tabs = <<>> /\ Len(tabs) = 0 /\ Thread = {}
  BY DEF TInit, Thread
<1>10. TabsWithin
  BY <1>9 DEF TabsWithin
<1>11. WellPlaced(threadList) /\ threadList.hi = 0
  BY NewListPlaced DEF TInit
<1>12. MenuTyped
  <2>1. active = 0 /\ bar = TRUE /\ inputs = 0 /\ drawn = FALSE /\ ended = "no"
    BY DEF TInit
  <2>2. active \in 0 .. Len(tabs) + 1 /\ inputs \in 0 .. MaxInputs
    BY <1>9, <2>1, ScreenNumbers
  <2>. QED
    BY <1>9, <1>11, <2>1, <2>2 DEF MenuTyped
<1>13. OutgoingTyped
  <2>1. outgoing[1] = <<>> /\ sent[1] = 0 /\ inputs = 0
    BY DEF TInit
  <2>. QED
    BY <1>4, <1>6, <2>1 DEF OutgoingTyped
<1>. QED
  BY <1>1, <1>8, <1>10, <1>12, <1>13 DEF ScreenTypes

LEMMA ScreenTypesStep ==
  ASSUME ScreenTypes, [TNext]_tvars
  PROVE  ScreenTypes'
<1>1. CASE RuntimeSteps
  BY <1>1, RuntimeKeepsTypes
<1>2. CASE UserSteps
  BY <1>2, InputKeepsTypes
<1>3. CASE Frame
  BY <1>3, FrameKeepsTypes
<1>4. CASE UNCHANGED tvars
  <2>1. UNCHANGED <<actual, feed, mirrored, outgoing, tabs, threadList, active, bar, inputs,
                    drawn, sent, ended>>
    BY <1>4 DEF tvars, world, screen
  <2>2. TInv'
    BY TabStepKeeps DEF ScreenTypes
  <2>. QED
    BY <2>1, <2>2 DEF ScreenTypes, ThreadsBounded, TabsWithin, Thread, MenuTyped, OutgoingTyped
<1>. QED
  BY <1>1, <1>2, <1>3, <1>4 DEF TNext

LEMMA Retyped ==
  ASSUME NEW S, NEW R, NEW s \in Seq(S), \A i \in 1 .. Len(s) : s[i] \in R
  PROVE  s \in Seq(R)
<1>1. s = [i \in 1 .. Len(s) |-> s[i]] /\ Len(s) \in Nat
  OBVIOUS
<1>. QED
  BY <1>1

LEMMA ScreenTyped ==
  ASSUME ScreenTypes
  PROVE  TTypeOK
<1>1. /\ actual \in Seq(ThreadShape) /\ mirrored \in Seq(ThreadShape) /\ tabs \in Seq(TabShape)
      /\ Len(tabs) <= Len(mirrored) /\ outgoing \in Seq(Seq(Message)) /\ sent \in Seq(Nat)
      /\ Len(outgoing) = Len(actual) /\ Len(sent) = Len(actual) /\ Len(mirrored) <= Len(actual)
  BY DEF ScreenTypes, TInv, ThreadsMirrored, TabsObserve, MessagesArrive
<1>2. {actual, mirrored} \subseteq Seq(ThreadState)
  <2>1. \A t \in 1 .. Len(actual) : actual[t] \in ThreadState
    BY DEF ScreenTypes, ThreadsBounded, InBounds
  <2>2. \A t \in 1 .. Len(mirrored) : mirrored[t] \in ThreadState
    BY DEF ScreenTypes, ThreadsBounded, InBounds
  <2>3. actual \in Seq(ThreadState)
    BY <1>1, <2>1, Retyped
  <2>4. mirrored \in Seq(ThreadState)
    BY <1>1, <2>2, Retyped
  <2>. QED
    BY <2>3, <2>4
<1>3. feed \in Seq([op : {"thread", "call", "answer", "work", "ask", "return"}, thread : 1 .. MaxTabs])
  BY DEF ScreenTypes, ThreadsBounded, FeedRecord
<1>4. outgoing \in [DOMAIN actual -> {<<>>} \cup
       {<<m>> : m \in [reply : 0 .. MaxTrace, toAsker : BOOLEAN, again : BOOLEAN]}]
  <2>1. DOMAIN actual = 1 .. Len(actual) /\ DOMAIN outgoing = 1 .. Len(actual)
        /\ outgoing = [t \in 1 .. Len(actual) |-> outgoing[t]]
    BY <1>1
  <2>2. ASSUME NEW t \in 1 .. Len(actual)
        PROVE  outgoing[t] \in {<<>>} \cup {<<m>> : m \in SentMessage}
    BY DEF ScreenTypes, OutgoingTyped
  <2>. QED
    BY <2>1, <2>2 DEF SentMessage
<1>5. ASSUME NEW t \in 1 .. Len(tabs)
      PROVE  tabs[t] \in [list : Listed(MaxTrace), unread : SUBSET (1 .. MaxTrace),
                          observed : 0 .. MaxTrace, current : 0 .. MaxTrace, loaded : BOOLEAN,
                          scroll : 0 .. 1, focus : Pane, mode : {"Normal", "Message", "Editor"},
                          text : BOOLEAN]
  <2>1. PICK tab : tab = tabs[t]
    OBVIOUS
  <2>2. TabWithin(tab) /\ tab \in TabShape
    BY <2>1 DEF ScreenTypes, TabsWithin, Thread, TabWithin
  <2>3. tab.observed \in 0 .. MaxTrace
    <3>1. tab.observed = Len(mirrored[t].trace) /\ t \in 1 .. Len(mirrored)
      BY <1>1, <2>1 DEF ScreenTypes, TInv, TabsObserve, Thread
    <3>2. InBounds(mirrored[t])
      BY <3>1 DEF ScreenTypes, ThreadsBounded
    <3>3. mirrored[t].trace \in Seq({"user", "agent"})
      BY <3>2 DEF InBounds, ThreadState
    <3>4. Len(mirrored[t].trace) \in Nat
      BY <3>3
    <3>. QED
      BY <3>1, <3>2, <3>4, ScreenNumbers DEF InBounds
  <2>4. tab.list \in Listed(MaxTrace)
    <3>1. WellPlaced(tab.list) /\ tab.list.hi \in Nat /\ tab.list.hi <= tab.observed
      BY <2>2, ListFields DEF TabWithin, WellPlaced
    <3>2. tab.list.hi <= MaxTrace
      BY <2>3, <3>1, ScreenNumbers
    <3>. QED
      BY <3>1, <3>2, ScreenNumbers, WellPlacedListed
  <2>5. tab.unread \in SUBSET (1 .. MaxTrace) /\ tab.current \in 0 .. MaxTrace /\ tab.scroll \in 0 .. 1
    BY <2>2, <2>3, ScreenNumbers DEF TabWithin
  <2>6. /\ tab.loaded \in BOOLEAN /\ tab.focus \in Pane /\ tab.text \in BOOLEAN
        /\ tab.mode \in {"Normal", "Message", "Editor"}
    BY <2>2 DEF TabShape, Mode
  <2>7. tab = [list |-> tab.list, unread |-> tab.unread, observed |-> tab.observed,
               current |-> tab.current, loaded |-> tab.loaded, scroll |-> tab.scroll,
               focus |-> tab.focus, mode |-> tab.mode, text |-> tab.text]
    BY <2>2 DEF TabShape
  <2>. QED
    BY <2>1, <2>3, <2>4, <2>5, <2>6, <2>7
<1>6. tabs \in Seq([list : Listed(MaxTrace), unread : SUBSET (1 .. MaxTrace), observed : 0 .. MaxTrace,
                    current : 0 .. MaxTrace, loaded : BOOLEAN, scroll : 0 .. 1, focus : Pane,
                    mode : {"Normal", "Message", "Editor"}, text : BOOLEAN])
  <2>1. PICK R : R = [list : Listed(MaxTrace), unread : SUBSET (1 .. MaxTrace),
                      observed : 0 .. MaxTrace, current : 0 .. MaxTrace, loaded : BOOLEAN,
                      scroll : 0 .. 1, focus : Pane, mode : {"Normal", "Message", "Editor"},
                      text : BOOLEAN]
    OBVIOUS
  <2>2. \A t \in 1 .. Len(tabs) : tabs[t] \in R
    BY <1>5, <2>1
  <2>3. tabs \in Seq(R)
    BY <1>1, <2>2, Retyped
  <2>. QED
    BY <2>1, <2>3
<1>7. threadList \in Listed(MaxTabs)
  <2>1. Len(tabs) <= MaxTabs /\ Len(tabs) \in Nat
    <3>1. Len(actual) <= MaxTabs /\ Len(actual) \in Nat /\ Len(mirrored) \in Nat /\ Len(tabs) \in Nat
      BY <1>1 DEF ScreenTypes, ThreadsBounded
    <3>. QED
      BY <1>1, <3>1, ScreenNumbers
  <2>2. WellPlaced(threadList) /\ threadList.hi = Len(tabs)
    BY DEF ScreenTypes, MenuTyped
  <2>. QED
    BY <2>1, <2>2, ScreenNumbers, WellPlacedListed
<1>8. /\ active \in 0 .. Len(tabs) + 1 /\ {bar, drawn} \subseteq BOOLEAN /\ inputs \in 0 .. MaxInputs
      /\ ended \in {"no", "sent", "sent_again", "reader"}
  BY DEF ScreenTypes, MenuTyped
<1>9. sent \in [DOMAIN actual -> 0 .. MaxInputs]
  <2>1. DOMAIN actual = 1 .. Len(actual) /\ sent = [t \in 1 .. Len(actual) |-> sent[t]]
    BY <1>1
  <2>2. ASSUME NEW t \in 1 .. Len(actual)  PROVE sent[t] \in 0 .. MaxInputs
    <3>1. sent[t] \in Nat /\ sent[t] <= inputs
      BY <1>1 DEF ScreenTypes, OutgoingTyped
    <3>. QED
      BY <1>8, <3>1, ScreenNumbers
  <2>. QED
    BY <2>1, <2>2
<1>. QED
  BY <1>1, <1>2, <1>3, <1>4, <1>6, <1>7, <1>8, <1>9 DEF TTypeOK

\* The tabs, their lists and the messages under way keep their types and bounds:
\* no cursor, viewport or unread message is past what a tab observed, and no tab
\* is shown that there is none of (Tui, ThreadTab::sync, ListOption).
THEOREM ScreenTypeCorrect == TSpec => []TTypeOK
<1>1. ScreenTypes => TTypeOK
  BY ScreenTyped
<1>2. ScreenTypes /\ [TNext]_tvars => ScreenTypes'
  BY ScreenTypesStep
<1>. QED
  BY InitScreenTypes, <1>1, <1>2, PTL DEF TSpec
=============================================================================
