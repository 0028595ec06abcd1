------------------------------ MODULE GridWalk ------------------------------
(***************************************************************************)
(* Gamepad navigation over a fixed layout while widgets come and go: every *)
(* press is one of the six focusgrid moves on a snapshot of what is shown  *)
(* (focus.go navigate), and between presses a daemon update or a click may *)
(* change what is shown under the focus.                                   *)
(***************************************************************************)
EXTENDS FocusGrid

CONSTANT Layouts    \* [items : a focus list, shows : the group sets it can show]

ASSUME LayoutsAssumption == \A l \in Layouts : IsGrid(l.items)

VARIABLES layout, shown, focusIdx

walkVars == <<layout, shown, focusIdx>>

grid == Snapshot(layout.items, shown)

Dirs == {-1, 1}
Moves(snap, i) == {MoveVertical(snap, i, d) : d \in Dirs}
                  \cup {MoveHorizontal(snap, i, d) : d \in Dirs}
                  \cup {JumpSection(snap, i, d) : d \in Dirs}

WalkTypeOK ==
  /\ layout \in Layouts
  /\ shown \in layout.shows
  /\ focusIdx \in DOMAIN grid

(* focusFirstVisible, when the gamepad is first used and after a view swap. *)
WalkInit ==
  /\ layout \in Layouts
  /\ shown \in layout.shows
  /\ FirstVisible(grid) # 0
  /\ focusIdx = FirstVisible(grid)

(* navigate: the index a move returns becomes the focus.                    *)
Land(next) ==
  /\ focusIdx' = next
  /\ UNCHANGED <<layout, shown>>

Vertical == \E d \in Dirs : Land(MoveVertical(grid, focusIdx, d))
Horizontal == \E d \in Dirs : Land(MoveHorizontal(grid, focusIdx, d))
Section == \E d \in Dirs : Land(JumpSection(grid, focusIdx, d))

ChangeShown ==
  /\ shown' \in layout.shows
  /\ UNCHANGED <<layout, focusIdx>>

WalkNext == Vertical \/ Horizontal \/ Section \/ ChangeShown

WalkSpec == WalkInit /\ [][WalkNext]_walkVars

-----------------------------------------------------------------------------
(* No sequence of presses leaves focus on a hidden item: whatever has been  *)
(* hidden meanwhile, a press that moves the focus moves it to a visible     *)
(* item (focusgrid_test.go TestNavigationNeverLandsOnAHiddenOrInvalidItem). *)
MovesLandOnVisible ==
  [][focusIdx' # focusIdx => grid[focusIdx'].visible]_walkVars

(* Focus left on an item that was hidden is not trapped there: with a second*)
(* row to go to, the next Up or Down leaves it, and with a second section   *)
(* the next shoulder button does.                                           *)
HiddenFocusEscapes ==
  ~grid[focusIdx].visible =>
    /\ ~AtMostOne(visibleRows(grid)) =>
         \A d \in Dirs : MoveVertical(grid, focusIdx, d) \in Visible(grid)
    /\ ~AtMostOne({grid[i].section : i \in Visible(grid)}) =>
         \A d \in Dirs : JumpSection(grid, focusIdx, d) \in Visible(grid)

(* The items that at most as many D-pad presses as there are items take i to.*)
Pressed(items, from) ==
  UNION {{j} \cup {MoveVertical(items, j, d) : d \in Dirs}
             \cup {MoveHorizontal(items, j, d) : d \in Dirs} : j \in from}

Reach(items, i) ==
  LET within[n \in 0..Len(items)] == IF n = 0 THEN {i} ELSE Pressed(items, within[n - 1])
  IN within[Len(items)]

(* Every visible control can be reached with the D-pad alone: nothing the   *)
(* drawer shows is out of a gamepad user's reach.                           *)
EveryItemReachable ==
  grid[focusIdx].visible => Visible(grid) \subseteq Reach(grid, focusIdx)

(* Opposite presses undo each other: Left undoes Right, one shoulder button *)
(* returns to the section the other left, and Up returns to the row Down    *)
(* left (focusgrid_test.go TestMoveVerticalIsReversible).                   *)
OppositeMovesUndo ==
  grid[focusIdx].visible =>
    \A d \in Dirs :
      /\ MoveHorizontal(grid, MoveHorizontal(grid, focusIdx, d), -d) = focusIdx
      /\ grid[JumpSection(grid, JumpSection(grid, focusIdx, d), -d)].section
           = grid[focusIdx].section
      /\ grid[MoveVertical(grid, MoveVertical(grid, focusIdx, d), -d)].row
           = grid[focusIdx].row
=============================================================================
