----------------------------- MODULE FocusGrid ------------------------------
(***************************************************************************)
(* Which item a press moves the gamepad focus to                           *)
(* (internal/focusgrid/focusgrid.go): pure functions of a snapshot of the  *)
(* focus list, the focused index and a direction, -1 or +1.                *)
(*                                                                         *)
(* Items are numbered from 1 here and from 0 in Go; 0 stands for Go's -1.  *)
(* Sorting rows, row items and sections and stepping modulo their number   *)
(* is said as what it computes: the next place in order, wrapping.         *)
(***************************************************************************)
EXTENDS Integers, Sequences

Least(S) == CHOOSE x \in S : \A y \in S : x <= y
Greatest(S) == CHOOSE x \in S : \A y \in S : y <= x

(* Mutants: no wrapping; the extremes swapped.                              *)
BugTurnStops(S, x, dir) ==
  LET beyond == {y \in S : dir * y > dir * x}
      from == IF beyond = {} THEN {x} ELSE beyond
  IN IF dir = 1 THEN Least(from) ELSE Greatest(from)
BugTurnSwapped(S, x, dir) ==
  LET beyond == {y \in S : dir * y > dir * x}
      from == IF beyond = {} THEN S ELSE beyond
  IN IF dir = 1 THEN Greatest(from) ELSE Least(from)

(* The member of S after x (dir = 1) or before it (dir = -1), wrapping.     *)
Turn(S, x, dir) ==
  LET beyond == {y \in S : dir * y > dir * x}
      from == IF beyond = {} THEN S ELSE beyond
  IN IF dir = 1 THEN Least(from) ELSE Greatest(from)

AtMostOne(S) == \A x, y \in S : x = y

(* What the moves expect of a list of items, Item's fields but for Section  *)
(* and Visible, of which they ask nothing.                                  *)
IsGrid(items) ==
  /\ Len(items) \in Nat
  /\ DOMAIN items = 1..Len(items)
  /\ \A i \in DOMAIN items : items[i].row \in Nat /\ items[i].col \in Nat

Distance(a, b) == IF a < b THEN b - a ELSE a - b

-----------------------------------------------------------------------------
(* gridSnapshot: the items of a focus list, each visible when the group of  *)
(* widgets it belongs to is shown.                                          *)
Snapshot(list, shown) ==
  [i \in DOMAIN list |-> [row |-> list[i].row, col |-> list[i].col,
                          section |-> list[i].section,
                          visible |-> list[i].group \in shown]]

Visible(items) == {i \in DOMAIN items : items[i].visible}

FirstVisible(items) == IF Visible(items) = {} THEN 0 ELSE Least(Visible(items))

visibleRows(items) == {items[i].row : i \in Visible(items)}

(* The place of item i in the list sorted by major, then by index.          *)
Place(items, major, i) == major * Len(items) + i

-----------------------------------------------------------------------------
(* Of the candidates, the one whose column is nearest col, the lower column *)
(* on a tie, the earlier item within one column.                            *)
Nearest(items, candidates, col) ==
  LET dist(i) == Distance(col, items[i].col)
      closest == {i \in candidates : \A j \in candidates : dist(i) <= dist(j)}
      lowest == {i \in closest : \A j \in closest : items[i].col <= items[j].col}
  IN Least(lowest)

(* Mutant: the hidden items of the target row are candidates too.           *)
BugMoveToHidden(items, idx, dir) ==
  LET rows == visibleRows(items)
      target == Turn(rows, items[idx].row, dir)
  IN IF idx \notin DOMAIN items \/ AtMostOne(rows)
       THEN idx
     ELSE IF items[idx].row \notin rows
       THEN FirstVisible(items)
     ELSE Nearest(items, {i \in DOMAIN items : items[i].row = target},
                  items[idx].col)

(* Mutant: the focus on a hidden row stays there.                           *)
BugMoveStuckOnHidden(items, idx, dir) ==
  LET rows == visibleRows(items)
      target == Turn(rows, items[idx].row, dir)
  IN IF idx \notin DOMAIN items \/ items[idx].row \notin rows
       THEN idx
     ELSE Nearest(items, {i \in Visible(items) : items[i].row = target},
                  items[idx].col)

MoveVertical(items, idx, dir) ==
  LET rows == visibleRows(items)
      target == Turn(rows, items[idx].row, dir)
  IN IF idx \notin DOMAIN items \/ AtMostOne(rows)
       THEN idx
     ELSE IF items[idx].row \notin rows
       THEN FirstVisible(items)
     ELSE Nearest(items, {i \in Visible(items) : items[i].row = target},
                  items[idx].col)

(* Mutant: the sort key is returned for the item.                           *)
BugMoveReturnsPlace(items, idx, dir) ==
  LET rowItems == {i \in Visible(items) : items[i].row = items[idx].row}
      places == {Place(items, items[i].col, i) : i \in rowItems}
  IN IF idx \notin DOMAIN items \/ AtMostOne(rowItems)
       THEN idx
       ELSE Turn(places, Place(items, items[idx].col, idx), dir)

(* A row's items in the order of their columns.                             *)
MoveHorizontal(items, idx, dir) ==
  LET rowItems == {i \in Visible(items) : items[i].row = items[idx].row}
      place(i) == Place(items, items[i].col, i)
      places == {place(i) : i \in rowItems}
      target == IF idx \in rowItems THEN Turn(places, place(idx), dir)
                                    ELSE Least(places)
  IN IF idx \notin DOMAIN items \/ AtMostOne(rowItems)
       THEN idx
       ELSE CHOOSE i \in rowItems : place(i) = target

(* Sections in visual order: each at the place of its first visible item,   *)
(* by row and then by index (Sections).  The jump lands on the section's    *)
(* first visible item in list order.                                        *)
JumpSection(items, idx, dir) ==
  LET in(s) == {i \in Visible(items) : items[i].section = s}
      sections == {items[i].section : i \in Visible(items)}
      head(s) == Least({Place(items, items[i].row, i) : i \in in(s)})
      heads == {head(s) : s \in sections}
      target == Turn(heads, head(items[idx].section), dir)
  IN IF idx \notin DOMAIN items \/ AtMostOne(sections)
       THEN idx
     ELSE IF items[idx].section \notin sections
       THEN FirstVisible(items)
     ELSE Least(in(CHOOSE s \in sections : head(s) = target))
=============================================================================
